---- MODULE Spec2Model ----
(***************************************************************************)
(* Workspace sandboxing (PathGuard, utils.rs) and the command layer that   *)
(* uses it (commands/*.rs), over an explicit model of a Unix filesystem    *)
(* with directories, files and symbolic links.                             *)
(*                                                                         *)
(* A string is a sequence of one-character strings.  A parsed path         *)
(* (std::path::Path) is a record [abs, comps]; a canonical path (PathBuf   *)
(* returned by canonicalize) is the sequence of its components below "/".  *)
(***************************************************************************)
EXTENDS Naturals, Sequences, FiniteSets, TLC

VARIABLES
    fs,             \* the filesystem: node (sequence of components) -> [kind, target]
    requested_path, \* utils.rs: argument of the validate_* call under study
    workspace_root, \* utils.rs: argument of the validate_* call under study
    call,           \* the last validate_* call: [op, allowed, must_exist, result]
    workspace_path, \* state.rs: AppState.workspace_path, None or Some(path)
    last,           \* command layer: the last command, its outcome and the locations it acted on
    commands_run,   \* command layer: how many commands have been invoked
    sanitize_arg,   \* utils.rs: argument of the sanitize_filename call under study
    sanitize_ret    \* utils.rs: None, or Some of what that call returned or that it panicked

sanitize_vars == <<sanitize_arg, sanitize_ret>>

VARIABLES
    watchers,       \* state.rs: AppState.watchers, the entries [path, watcher, event_count]
    lock,           \* state.rs: the thread that holds the mutex of AppState.watchers, or NoThread
    threads,        \* per calling thread: the call it is in, [op, path, pc, watcher, ret]
    calls,          \* the completed calls, in the order in which they held the mutex
    next_watcher,   \* the number of RecommendedWatcher values created so far
    released,       \* the watchers that have been dropped
    pumps           \* per watcher: the channel of its callback and its listener thread

registry_vars == <<watchers, lock, threads, calls, next_watcher, released, pumps>>

vars == <<fs, requested_path, workspace_root, call, workspace_path, last, commands_run,
          sanitize_vars, registry_vars>>

-----------------------------------------------------------------------------
(* Strings *)

UpperChars == <<"A","B","C","D","E","F","G","H","I","J","K","L","M",
                "N","O","P","Q","R","S","T","U","V","W","X","Y","Z">>

LowerChars == <<"a","b","c","d","e","f","g","h","i","j","k","l","m",
                "n","o","p","q","r","s","t","u","v","w","x","y","z">>

\* char::to_lowercase on the ASCII range
ToLowerChar(c) ==
    IF \E i \in 1..Len(UpperChars) : UpperChars[i] = c
    THEN LowerChars[CHOOSE i \in 1..Len(UpperChars) : UpperChars[i] = c]
    ELSE c

\* str::to_lowercase
ToLower(s) == [i \in 1..Len(s) |-> ToLowerChar(s[i])]

\* str::contains(pattern)
StrContains(s, pat) ==
    \E i \in 1..(Len(s) + 1) :
        /\ i + Len(pat) - 1 <= Len(s)
        /\ SubSeq(s, i, i + Len(pat) - 1) = pat

\* str::ends_with(suffix)
StrEndsWith(s, suf) ==
    /\ Len(suf) <= Len(s)
    /\ SubSeq(s, Len(s) - Len(suf) + 1, Len(s)) = suf

\* str::split(|c| c is one of seps): the pieces between separators, empty ones included
RECURSIVE SplitAcc(_, _, _, _)
SplitAcc(s, seps, cur, acc) ==
    IF s = <<>> THEN Append(acc, cur)
    ELSE IF Head(s) \in seps
         THEN SplitAcc(Tail(s), seps, <<>>, Append(acc, cur))
         ELSE SplitAcc(Tail(s), seps, Append(cur, Head(s)), acc)

Split(s, seps) == SplitAcc(s, seps, <<>>, <<>>)

\* the components joined by "/" (Path::join on a sequence of names)
RECURSIVE JoinSlash(_)
JoinSlash(cs) ==
    IF cs = <<>> THEN <<>>
    ELSE IF Len(cs) = 1 THEN cs[1]
    ELSE cs[1] \o <<"/">> \o JoinSlash(Tail(cs))

Front(s) == SubSeq(s, 1, Len(s) - 1)

Last(s) == s[Len(s)]

IsPrefix(p, s) == Len(p) <= Len(s) /\ SubSeq(s, 1, Len(p)) = p

-----------------------------------------------------------------------------
(* contains_traversal_pattern *)

DotDot == <<".", ".">>

\* "..%2f", "..%5c", "%2e%2e"
url_patterns ==
    { <<".", ".", "%", "2", "f">>,
      <<".", ".", "%", "5", "c">>,
      <<"%", "2", "e", "%", "2", "e">> }

HasUrlPattern(path) ==
    LET path_lower == ToLower(path)
    IN  \E p \in url_patterns : StrContains(path_lower, p)

\* only "/" taken as a separator
HasDotDotComponent_SlashOnly(path) ==
    LET components == Split(path, {"/"})
    IN  \E i \in 1..Len(components) : components[i] = DotDot

HasDotDotComponent(path) ==
    LET components == Split(path, {"/", "\\"})
    IN  \E i \in 1..Len(components) : components[i] = DotDot

contains_traversal_pattern(path) ==
    HasUrlPattern(path) \/ HasDotDotComponent(path)

-----------------------------------------------------------------------------
(* std::path::Path on Unix: "/" is the only separator *)

Dot == <<".">>

\* Path::components: empty pieces and "." are dropped, except a "." that starts a
\* relative path; the root is kept in "abs"
PathNew(s) ==
    LET pieces == Split(s, {"/"})
        isabs  == s # <<>> /\ Head(s) = "/"
        Keep(i) == /\ pieces[i] # <<>>
                   /\ (pieces[i] = Dot => (i = 1 /\ ~isabs))
        idx    == {i \in 1..Len(pieces) : Keep(i)}
        RECURSIVE Pick(_, _)
        Pick(i, acc) == IF i > Len(pieces) THEN acc
                        ELSE Pick(i + 1, IF i \in idx THEN Append(acc, pieces[i]) ELSE acc)
    IN  [abs |-> isabs, comps |-> Pick(1, <<>>)]

\* a canonical PathBuf seen as a Path
PathOfCanonical(cs) == [abs |-> TRUE, comps |-> cs]

IsEmptyPath(p) == ~p.abs /\ p.comps = <<>>

\* Path::parent: None for "/" and for the empty path
HasParent(p) == p.comps # <<>>

PathParent(p) == [abs |-> p.abs, comps |-> Front(p.comps)]

\* Path::file_name: the last component when it is a normal name
HasFileName(p) == p.comps # <<>> /\ Last(p.comps) \notin {Dot, DotDot}

FileName(p) == Last(p.comps)

\* Path::extension: the part of the file name after its last ".", none when the
\* name has no "." or only a leading one
HasExtension(name) ==
    \E i \in 2..Len(name) : name[i] = "."

Extension(name) ==
    LET i == CHOOSE k \in 2..Len(name) :
                 name[k] = "." /\ \A j \in (k + 1)..Len(name) : name[j] # "."
    IN  SubSeq(name, i + 1, Len(name))

\* a prefix test on the text of the two paths instead of on their components
starts_with_textual(path, base) ==
    IsPrefix(JoinSlash(base), JoinSlash(path))

\* Path::starts_with: whole components

starts_with(path, base) == IsPrefix(base, path)

-----------------------------------------------------------------------------
(* The filesystem and path resolution (stat / realpath) *)

\* the process's working directory, against which relative paths resolve
Cwd == << <<"w">> >>

Kind(fsys, node) ==
    IF node = <<>> THEN "dir"
    ELSE IF node \in DOMAIN fsys THEN fsys[node].kind
    ELSE "none"

\* Walk the components "rest" from directory "cur", following symbolic links.
\* found: the node the path names; missing: every component but the last
\* resolves and the last names nothing, "at" is where it would be created;
\* error: ENOENT, ENOTDIR or ELOOP on the way.
RECURSIVE Walk(_, _, _, _)
Walk(fsys, cur, rest, seen) ==
    IF rest = <<>> THEN [st |-> "found", at |-> cur]
    ELSE LET c    == Head(rest)
             more == Tail(rest)
             next == Append(cur, c)
         IN  IF Kind(fsys, cur) # "dir" THEN [st |-> "error", at |-> cur]
             ELSE IF c = Dot THEN Walk(fsys, cur, more, seen)
             ELSE IF c = DotDot
                  THEN Walk(fsys, IF cur = <<>> THEN cur ELSE Front(cur), more, seen)
             ELSE IF Kind(fsys, next) = "none"
                  THEN IF more = <<>> THEN [st |-> "missing", at |-> next]
                       ELSE [st |-> "error", at |-> next]
             ELSE IF Kind(fsys, next) = "sym"
                  THEN IF next \in seen THEN [st |-> "error", at |-> next]
                       ELSE Walk(fsys, <<>>, fsys[next].target \o more, seen \cup {next})
             ELSE Walk(fsys, next, more, seen)

Resolve(fsys, p) ==
    IF IsEmptyPath(p) THEN [st |-> "error", at |-> <<>>]
    ELSE Walk(fsys, IF p.abs THEN <<>> ELSE Cwd, p.comps, {})

\* Path::exists: stat succeeds (symbolic links followed)
PathExists(fsys, p) == Resolve(fsys, p).st = "found"

\* Path::is_dir
PathIsDir(fsys, p) ==
    LET r == Resolve(fsys, p)
    IN  r.st = "found" /\ Kind(fsys, r.at) = "dir"

\* Path::is_file
PathIsFile(fsys, p) ==
    LET r == Resolve(fsys, p)
    IN  r.st = "found" /\ Kind(fsys, r.at) = "file"

\* Path::canonicalize: the symlink-free absolute form of an existing path
CanCanonicalize(fsys, p) == PathExists(fsys, p)

Canonical(fsys, p) == Resolve(fsys, p).at

\* the location an open, read, write, rename or unlink through p acts on once
\* the kernel has followed the symbolic links in it; for a name that does not
\* exist yet (also at the end of a dangling link), where it would be created
ActsOn(fsys, p) == Resolve(fsys, p).at

-----------------------------------------------------------------------------
(* utils.rs: ValidationError and the three validators *)

Ok(path) == [kind |-> "Ok", path |-> path, reason |-> "ok"]

Err(kind, reason) == [kind |-> kind, path |-> <<>>, reason |-> reason]

\* which canonicalize call, if any, fails with an I/O error although the path
\* was just seen to exist (the filesystem is read again on every call)
Faults == {"none", "root", "requested", "parent"}

\* the requested path taken as written, its symbolic links not resolved
ResolveRequested_Lexical(fsys, requested, fault) ==
    IF ~HasParent(requested)
    THEN Err("PathResolutionFailed", "Path has no parent directory")
    ELSE IF ~PathExists(fsys, requested) /\ ~PathExists(fsys, PathParent(requested))
    THEN Err("PathResolutionFailed", "Parent directory does not exist")
    ELSE Ok((IF requested.abs THEN <<>> ELSE Cwd) \o requested.comps)

\* the file name joined to the parent as written, not to its canonical form
ResolveRequested_ParentLexical(fsys, requested, fault) ==
    IF PathExists(fsys, requested)
    THEN IF fault = "requested"
         THEN Err("PathResolutionFailed", "Cannot resolve path")
         ELSE Ok(Canonical(fsys, requested))
    ELSE IF ~HasParent(requested)
         THEN Err("PathResolutionFailed", "Path has no parent directory")
    ELSE IF ~HasFileName(requested)
         THEN Err("PathResolutionFailed", "Path has no filename")
    ELSE IF ~PathExists(fsys, PathParent(requested))
         THEN Err("PathResolutionFailed", "Parent directory does not exist")
    ELSE Ok((IF requested.abs THEN <<>> ELSE Cwd) \o requested.comps)

\* lines 119-160: the canonical form of the requested path, or of its parent
\* joined with the file name when the path does not exist
ResolveRequested(fsys, requested, fault) ==
    IF PathExists(fsys, requested)
    THEN IF fault = "requested"
         THEN Err("PathResolutionFailed", "Cannot resolve path")
         ELSE Ok(Canonical(fsys, requested))
    ELSE IF ~HasParent(requested)
         THEN Err("PathResolutionFailed", "Path has no parent directory")
    ELSE IF ~HasFileName(requested)
         THEN Err("PathResolutionFailed", "Path has no filename")
    ELSE IF ~PathExists(fsys, PathParent(requested))
         THEN Err("PathResolutionFailed", "Parent directory does not exist")
    ELSE IF fault = "parent"
         THEN Err("PathResolutionFailed", "Cannot resolve parent directory")
    ELSE Ok(Append(Canonical(fsys, PathParent(requested)), FileName(requested)))

\* the root compared as written, not in its canonical form
CheckRoot_NoCanon(fsys, workspace, fault) ==
    IF ~PathExists(fsys, workspace)
    THEN Err("InvalidWorkspaceRoot", "Workspace directory does not exist")
    ELSE IF ~PathIsDir(fsys, workspace)
    THEN Err("InvalidWorkspaceRoot", "Workspace path is not a directory")
    ELSE Ok((IF workspace.abs THEN <<>> ELSE Cwd) \o workspace.comps)

\* the is_dir test left out
CheckRoot_NoDirCheck(fsys, workspace, fault) ==
    IF ~PathExists(fsys, workspace)
    THEN Err("InvalidWorkspaceRoot", "Workspace directory does not exist")
    ELSE IF fault = "root"
    THEN Err("InvalidWorkspaceRoot", "Cannot canonicalize workspace")
    ELSE Ok(Canonical(fsys, workspace))

\* lines 96-117: the workspace root must exist, be a directory and canonicalize
CheckRoot(fsys, workspace, fault) ==
    IF ~PathExists(fsys, workspace)
    THEN Err("InvalidWorkspaceRoot", "Workspace directory does not exist")
    ELSE IF ~PathIsDir(fsys, workspace)
    THEN Err("InvalidWorkspaceRoot", "Workspace path is not a directory")
    ELSE IF fault = "root"
    THEN Err("InvalidWorkspaceRoot", "Cannot canonicalize workspace")
    ELSE Ok(Canonical(fsys, workspace))

validate_path_within_workspace(fsys, req, root, fault) ==
    IF contains_traversal_pattern(req)
    THEN Err("InvalidPathPattern", "Path contains directory traversal patterns")
    ELSE LET workspace_canonical == CheckRoot(fsys, PathNew(root), fault)
             requested_canonical == ResolveRequested(fsys, PathNew(req), fault)
         IN  IF workspace_canonical.kind # "Ok" THEN workspace_canonical
             ELSE IF requested_canonical.kind # "Ok" THEN requested_canonical
             ELSE IF ~starts_with(requested_canonical.path, workspace_canonical.path)
                  THEN Err("PathOutsideWorkspace", "outside workspace")
             ELSE Ok(requested_canonical.path)

\* the extension compared without folding case
ExtensionAllowed_CaseSensitive(path, allowed_extensions) ==
    IF path # <<>> /\ HasExtension(Last(path))
    THEN Extension(Last(path)) \in allowed_extensions
    ELSE allowed_extensions = {}

\* lines 190-207: the extension test of validate_file_path on a validated path
ExtensionAllowed(path, allowed_extensions) ==
    IF path # <<>> /\ HasExtension(Last(path))
    THEN LET ext_str == ToLower(Extension(Last(path)))
         IN  \E allowed \in allowed_extensions : ToLower(allowed) = ext_str
    ELSE allowed_extensions = {}

validate_file_path(fsys, req, root, allowed_extensions, fault) ==
    LET path == validate_path_within_workspace(fsys, req, root, fault)
    IN  IF path.kind # "Ok" THEN path
        ELSE IF ~ExtensionAllowed(path.path, allowed_extensions)
             THEN Err("InvalidPathPattern",
                      IF path.path # <<>> /\ HasExtension(Last(path.path))
                      THEN "File extension not allowed"
                      ELSE "File must have one of these extensions")
        ELSE path

\* must_exist not consulted: the path has to be a directory in every call
validate_directory_path_AlwaysDir(fsys, req, root, must_exist, fault) ==
    LET path == validate_path_within_workspace(fsys, req, root, fault)
    IN  IF path.kind # "Ok" THEN path
        ELSE IF ~PathIsDir(fsys, PathOfCanonical(path.path))
             THEN Err("PathResolutionFailed", "Path is not a directory or does not exist")
        ELSE path

validate_directory_path(fsys, req, root, must_exist, fault) ==
    LET path == validate_path_within_workspace(fsys, req, root, fault)
    IN  IF path.kind # "Ok" THEN path
        ELSE IF must_exist /\ ~PathIsDir(fsys, PathOfCanonical(path.path))
             THEN Err("PathResolutionFailed", "Path is not a directory or does not exist")
        ELSE path

-----------------------------------------------------------------------------
(* The filesystem the validators run on and the inputs they are called with *)

Nw   == <<"w">>
Nd   == <<"d">>
Nf   == <<"f", ".", "m", "d">>
Nn   == <<"n">>
Nl   == <<"l">>
Nk   == <<"k", ".", "m", "d">>
No   == <<"o">>
Nwe  == <<"w", "e">>
Nr   == <<"r">>
Nemb == <<"a", ".", ".", "b">>
Nbs  == <<"x", "\\", ".", ".">>
Nurl == <<".", ".", "%", "2", "F">>

Dir == [kind |-> "dir", target |-> <<>>]

File == [kind |-> "file", target |-> <<>>]

Sym(t) == [kind |-> "sym", target |-> t]

\*  /w            the workspace          /w/d       a directory in it
\*  /w/f.md       a document             /w/l       a link to /o
\*  /w/k.md       a link to /o/n, which does not exist
\*  /o            a directory outside    /o/f.md    a document outside
\*  /we           a sibling of /w        /r         a link to /w
BaseFS ==
    ( <<Nw>> :> Dir ) @@ ( <<Nw, Nd>> :> Dir ) @@ ( <<Nw, Nf>> :> File ) @@
    ( <<Nw, Nl>> :> Sym(<<No>>) ) @@ ( <<Nw, Nk>> :> Sym(<<No, Nn>>) ) @@
    ( <<No>> :> Dir ) @@ ( <<No, Nf>> :> File ) @@
    ( <<Nwe>> :> Dir ) @@ ( <<Nr>> :> Sym(<<Nw>>) )

Names == {Nw, Nd, Nf, Nn, Nl, Nk, Nwe, Nr, DotDot, Nemb, Nbs, Nurl}

MaxDepth == 2

NameSeqs == UNION { [1..n -> Names] : n \in 1..MaxDepth }

\* the requested paths: absolute and relative, and the empty string
ReqPaths ==
    {<<>>} \cup { pre \o JoinSlash(cs) : pre \in {<<>>, <<"/">>}, cs \in NameSeqs }

\* the workspace roots: /w, /r (a link to it), /n (missing), /w/f.md (a file), /w/d
Roots ==
    { <<"/">> \o JoinSlash(cs) :
        cs \in { <<Nw>>, <<Nr>>, <<Nn>>, <<Nw, Nf>>, <<Nw, Nd>> } }

\* allow-lists of validate_file_path: none, and "MD" with "txt"
AllowLists == { {}, { <<"M", "D">>, <<"t", "x", "t">> } }

\* the canonicalize call that failed in an execution, read off its outcome
FaultFired(result) ==
    CASE result.reason = "Cannot canonicalize workspace"     -> "root"
      [] result.reason = "Cannot resolve path"               -> "requested"
      [] result.reason = "Cannot resolve parent directory"   -> "parent"
      [] OTHER                                               -> "none"

Called(op, allowed, must_exist, result) ==
    [op |-> op, allowed |-> allowed, must_exist |-> must_exist,
     fault |-> FaultFired(result), result |-> result]

NoCall == Called("none", {}, FALSE, Err("none", "none"))

\* Option<String>: None, or Some(path)
None == <<>>

Some(x) == <<x>>

\* the threads that call into AppState
Threads == {"t1", "t2"}

NoThread == "none"

NoRet == [ok |-> FALSE, val |-> "none"]

\* a thread that is in no call
Idle ==
    [op |-> "none", path |-> <<>>, pc |-> "idle", watcher |-> 0, ret |-> NoRet,
     count |-> 0, validated_path |-> <<>>]

\* AppState::new: an empty map behind an unlocked mutex; nothing created yet
RegistryIdle ==
    /\ watchers = {}
    /\ lock = NoThread
    /\ threads = [t \in Threads |-> Idle]
    /\ calls = <<>>
    /\ next_watcher = 0
    /\ released = {}
    /\ pumps = <<>>

NoCommand == [cmd |-> "none", ok |-> FALSE, touched |-> {}]

InitPathGuard ==
    /\ fs = BaseFS
    /\ requested_path \in ReqPaths
    /\ workspace_root \in Roots
    /\ call = NoCall
    /\ workspace_path = None
    /\ last = NoCommand
    /\ commands_run = 0
    /\ RegistryIdle
    /\ sanitize_arg = <<>>
    /\ sanitize_ret = None

CallValidate ==
    /\ call = NoCall
    /\ \E fault \in Faults :
         call' = Called("validate", {}, FALSE,
                        validate_path_within_workspace(
                            fs, requested_path, workspace_root, fault))
    /\ UNCHANGED <<fs, requested_path, workspace_root, workspace_path, last, commands_run, sanitize_vars, registry_vars>>

CallValidateFile ==
    /\ call = NoCall
    /\ \E fault \in Faults, allowed \in AllowLists :
         call' = Called("validate_file", allowed, FALSE,
                        validate_file_path(
                            fs, requested_path, workspace_root, allowed, fault))
    /\ UNCHANGED <<fs, requested_path, workspace_root, workspace_path, last, commands_run, sanitize_vars, registry_vars>>

CallValidateDir ==
    /\ call = NoCall
    /\ \E fault \in Faults, must_exist \in BOOLEAN :
         call' = Called("validate_dir", {}, must_exist,
                        validate_directory_path(
                            fs, requested_path, workspace_root, must_exist, fault))
    /\ UNCHANGED <<fs, requested_path, workspace_root, workspace_path, last, commands_run, sanitize_vars, registry_vars>>

NextPathGuard == CallValidate \/ CallValidateFile \/ CallValidateDir

SpecPathGuard == InitPathGuard /\ [][NextPathGuard]_vars

-----------------------------------------------------------------------------
(* utils.rs: sanitize_filename *)

invalid_chars == {"<", ">", ":", "\"", "/", "\\", "|", "?", "*", "NUL"}

\* char::is_control, NUL included
ControlChars == {"NUL", "\t", "\n", "\r"}

\* char::is_whitespace
WhiteSpace == {" ", "\t", "\n", "\r"}

\* characters that take two bytes in UTF-8; every other one here takes one
WideChars == {"U+00E9"}

ByteWidth(c) == IF c \in WideChars THEN 2 ELSE 1

\* String::len: the length in bytes
ByteLen(str) == Len(str) + Cardinality({i \in 1..Len(str) : ByteWidth(str[i]) = 2})

\* str::trim and str::trim_matches: what lies between the first and the last
\* character outside "set"
Trim(str, set) ==
    LET keep == {i \in 1..Len(str) : str[i] \notin set}
    IN  IF keep = {} THEN <<>>
        ELSE SubSeq(str, CHOOSE i \in keep : \A j \in keep : i <= j,
                         CHOOSE i \in keep : \A j \in keep : j <= i)

\* the number of bytes the first k characters of str take
ByteOffsets(str) ==
    LET wide == {i \in 1..Len(str) : ByteWidth(str[i]) = 2}
    IN  [k \in 0..Len(str) |-> k + Cardinality({i \in wide : i <= k})]

\* str::is_char_boundary: n bytes are a whole number of characters of str
IsCharBoundary(str, n) ==
    LET at == ByteOffsets(str)
    IN  \E k \in 0..Len(str) : at[k] = n

\* the prefix of str that is n bytes long
BytePrefix(str, n) ==
    LET at == ByteOffsets(str)
    IN  SubSeq(str, 1, CHOOSE k \in 0..Len(str) : at[k] = n)

MaxFilenameLen == 200

Unnamed == <<"u", "n", "n", "a", "m", "e", "d">>

\* String::truncate panics when the new length is not on a character boundary
sanitize_filename(filename) ==
    LET replaced  == [i \in 1..Len(filename) |->
                         IF filename[i] \in invalid_chars \cup ControlChars
                         THEN "_" ELSE filename[i]]
        trimmed   == Trim(Trim(replaced, WhiteSpace), {"."})
        sanitized == IF trimmed = <<>> THEN Unnamed ELSE trimmed
    IN  IF ByteLen(sanitized) <= MaxFilenameLen
        THEN [panic |-> FALSE, name |-> sanitized]
        ELSE IF IsCharBoundary(sanitized, MaxFilenameLen)
        THEN [panic |-> FALSE, name |-> BytePrefix(sanitized, MaxFilenameLen)]
        ELSE [panic |-> TRUE, name |-> <<>>]

\* the characters at the ends of the file names tried: a letter, a dot, a
\* space, a separator, a control character and a two-byte character
EdgeChars == {"a", ".", " ", "/", "\t", "U+00E9"}

MaxEdge == 2

Edges == UNION { [1..n -> EdgeChars] : n \in 0..MaxEdge }

\* how many letters stand between the two ends: none, or enough to bring the
\* name to the length limit and, with the ends, past it
Pads == {0, MaxFilenameLen - 1, MaxFilenameLen}

Filenames ==
    { pre \o [i \in 1..n |-> "a"] \o suf : pre \in Edges, suf \in Edges, n \in Pads }

InitSanitize ==
    /\ sanitize_arg \in Filenames
    /\ sanitize_ret = None
    /\ fs = BaseFS
    /\ requested_path = <<>>
    /\ workspace_root = <<>>
    /\ call = NoCall
    /\ workspace_path = None
    /\ last = NoCommand
    /\ commands_run = 0
    /\ RegistryIdle

CallSanitize ==
    /\ sanitize_ret = None
    /\ sanitize_ret' = Some(sanitize_filename(sanitize_arg))
    /\ UNCHANGED <<fs, requested_path, workspace_root, call, workspace_path, last,
                   commands_run, sanitize_arg, registry_vars>>

NextSanitize == CallSanitize

SpecSanitize == InitSanitize /\ [][NextSanitize]_vars

-----------------------------------------------------------------------------
(* std::fs on the model filesystem: each operation gives whether it succeeded, *)
(* the locations it acted on and the filesystem it leaves                      *)

Eff(ok, touched, newfs) == [ok |-> ok, touched |-> touched, fs |-> newfs]

Fail(fsys) == Eff(FALSE, {}, fsys)

Subtree(fsys, node) == {m \in DOMAIN fsys : IsPrefix(node, m)}

Children(fsys, node) == {m \in Subtree(fsys, node) : Len(m) = Len(node) + 1}

FsRemove(fsys, nodes) == [m \in DOMAIN fsys \ nodes |-> fsys[m]]

FsAdd(fsys, node, what) ==
    [m \in DOMAIN fsys \cup {node} |-> IF m = node THEN what ELSE fsys[m]]

\* the directory entry a path names: the symbolic links of its directory part
\* are followed, its last component is not (unlink, rename, rmdir, O_EXCL)
Entry(fsys, p) ==
    IF p.comps = <<>> \/ Last(p.comps) \in {Dot, DotDot}
    THEN [st |-> "error", at |-> <<>>]
    ELSE LET dir == Walk(fsys, IF p.abs THEN <<>> ELSE Cwd, Front(p.comps), {})
         IN  IF dir.st # "found" \/ Kind(fsys, dir.at) # "dir"
             THEN [st |-> "error", at |-> dir.at]
             ELSE LET at == Append(dir.at, Last(p.comps))
                  IN  [st |-> IF Kind(fsys, at) = "none" THEN "missing" ELSE "found",
                       at |-> at]

\* fs::read_to_string, fs::metadata, fs::read_dir: the node must be of a kind in "kinds"
FsRead(fsys, p, kinds) ==
    LET r == Resolve(fsys, p)
    IN  IF r.st = "found" /\ Kind(fsys, r.at) \in kinds
        THEN Eff(TRUE, {r.at}, fsys)
        ELSE Fail(fsys)

\* fs::write and the destination of fs::copy: open with O_CREAT | O_TRUNC,
\* symbolic links followed
FsWrite(fsys, p) ==
    LET r == Resolve(fsys, p)
    IN  IF r.st = "found" /\ Kind(fsys, r.at) = "file" THEN Eff(TRUE, {r.at}, fsys)
        ELSE IF r.st = "missing" THEN Eff(TRUE, {r.at}, FsAdd(fsys, r.at, File))
        ELSE Fail(fsys)

\* the file opened with create and truncate instead of create_new
FsCreateNew_Truncate(fsys, p) ==
    LET e == Entry(fsys, p)
    IN  IF e.st = "missing" THEN Eff(TRUE, {e.at}, FsAdd(fsys, e.at, File))
        ELSE IF e.st = "found" THEN Eff(TRUE, {e.at}, fsys)
        ELSE Fail(fsys)

\* OpenOptions::create_new: O_CREAT | O_EXCL, fails on any existing entry
FsCreateNew(fsys, p) ==
    LET e == Entry(fsys, p)
    IN  IF e.st = "missing" THEN Eff(TRUE, {e.at}, FsAdd(fsys, e.at, File))
        ELSE Fail(fsys)

\* fs::remove_file: unlink
FsRemoveFile(fsys, p) ==
    LET e == Entry(fsys, p)
    IN  IF e.st = "found" /\ Kind(fsys, e.at) \in {"file", "sym"}
        THEN Eff(TRUE, {e.at}, FsRemove(fsys, {e.at}))
        ELSE Fail(fsys)

\* fs::remove_dir: rmdir of an empty directory
FsRemoveDir(fsys, p) ==
    LET e == Entry(fsys, p)
    IN  IF e.st = "found" /\ Kind(fsys, e.at) = "dir" /\ Children(fsys, e.at) = {}
        THEN Eff(TRUE, {e.at}, FsRemove(fsys, {e.at}))
        ELSE Fail(fsys)

\* fs::remove_dir_all: a symbolic link is unlinked, a directory is removed with
\* everything below it (links below it are unlinked, not followed)
FsRemoveDirAll(fsys, p) ==
    LET e == Entry(fsys, p)
    IN  IF e.st = "found" /\ Kind(fsys, e.at) \in {"dir", "sym"}
        THEN Eff(TRUE, Subtree(fsys, e.at), FsRemove(fsys, Subtree(fsys, e.at)))
        ELSE Fail(fsys)

\* fs::rename: the entry a, with what is below it, becomes the entry b
FsRename(fsys, a, b) ==
    LET ea == Entry(fsys, a)
        eb == Entry(fsys, b)
        ka == Kind(fsys, ea.at)
        kb == Kind(fsys, eb.at)
        moved == { eb.at \o SubSeq(m, Len(ea.at) + 1, Len(m)) : m \in Subtree(fsys, ea.at) }
        back(n) == ea.at \o SubSeq(n, Len(eb.at) + 1, Len(n))
        kept  == (DOMAIN fsys \ Subtree(fsys, ea.at)) \ Subtree(fsys, eb.at)
    IN  IF ea.st # "found" \/ eb.st = "error" THEN Fail(fsys)
        ELSE IF ea.at = eb.at THEN Eff(TRUE, {ea.at}, fsys)
        ELSE IF IsPrefix(ea.at, eb.at) THEN Fail(fsys)
        ELSE IF eb.st = "found" /\ ka = "dir"
                 /\ (kb # "dir" \/ Children(fsys, eb.at) # {}) THEN Fail(fsys)
        ELSE IF eb.st = "found" /\ ka # "dir" /\ kb = "dir" THEN Fail(fsys)
        ELSE Eff(TRUE, {ea.at, eb.at},
                 [n \in kept \cup moved |-> IF n \in moved THEN fsys[back(n)] ELSE fsys[n]])

\* fs::create_dir_all: every missing directory on the way is created
RECURSIVE MkdirP(_, _, _, _)
MkdirP(fsys, cur, rest, made) ==
    IF rest = <<>> THEN Eff(TRUE, made \cup {cur}, fsys)
    ELSE LET c    == Head(rest)
             next == Append(cur, c)
         IN  IF c = Dot THEN MkdirP(fsys, cur, Tail(rest), made)
             ELSE IF c = DotDot
                  THEN MkdirP(fsys, IF cur = <<>> THEN cur ELSE Front(cur), Tail(rest), made)
             ELSE IF Kind(fsys, next) = "none"
                  THEN MkdirP(FsAdd(fsys, next, Dir), next, Tail(rest), made \cup {next})
             ELSE IF Kind(fsys, next) = "dir"
                  THEN MkdirP(fsys, next, Tail(rest), made)
             ELSE IF Kind(fsys, next) = "sym" /\ PathIsDir(fsys, PathOfCanonical(next))
                  THEN MkdirP(fsys, Canonical(fsys, PathOfCanonical(next)), Tail(rest), made)
             ELSE Eff(FALSE, made, fsys)

FsCreateDirAll(fsys, p) ==
    IF IsEmptyPath(p) THEN Eff(TRUE, {}, fsys)
    ELSE MkdirP(fsys, IF p.abs THEN <<>> ELSE Cwd, p.comps, {})

\* fs::copy: the source must be a file; the destination is opened as by fs::write;
\* "counted" says which of the two ends are recorded as acted on
FsCopy(fsys, src, dst, counted) ==
    LET r == FsRead(fsys, src, {"file"})
        w == FsWrite(fsys, dst)
    IN  IF ~r.ok \/ ~w.ok THEN Fail(fsys)
        ELSE Eff(TRUE,
                 (IF "src" \in counted THEN r.touched ELSE {})
                     \cup (IF "dst" \in counted THEN w.touched ELSE {}),
                 w.fs)

-----------------------------------------------------------------------------
(* The registered commands.  Each gives the outcome of one invocation on the   *)
(* filesystem fsys with AppState.workspace_path = ws.                          *)

DotMd == <<".", "m", "d">>

Md == <<"m", "d">>

QuickNotes == <<"Q", "u", "i", "c", "k", " ", "N", "o", "t", "e", "s">>

Projects == <<"P", "r", "o", "j", "e", "c", "t", "s">>

WelcomeMd == <<"W", "e", "l", "c", "o", "m", "e", ".", "m", "d">>

\* Path::join with one normal component
PathJoin(p, name) == [abs |-> p.abs, comps |-> Append(p.comps, name)]

\* "<name>.md" unless the name already ends with ".md"
WithMd(name) == IF StrEndsWith(name, DotMd) THEN name ELSE name \o DotMd

\* an outcome after the effects of an earlier step of the same command
After(first, then) == Eff(then.ok, first.touched \cup then.touched, then.fs)

list_workspace_files(fsys, ws, workspace_path_arg) ==
    IF ws = None THEN Fail(fsys)
    ELSE LET path       == PathNew(workspace_path_arg)
             configured == PathNew(ws[1])
         IN  IF ~CanCanonicalize(fsys, path) THEN Fail(fsys)
             ELSE IF ~CanCanonicalize(fsys, configured) THEN Fail(fsys)
             ELSE IF ~starts_with(Canonical(fsys, path), Canonical(fsys, configured))
                  THEN Fail(fsys)
             ELSE IF ~PathExists(fsys, path) THEN Fail(fsys)
             ELSE FsRead(fsys, path, {"dir"})

save_document_to_file(fsys, ws, file_path) ==
    IF ws = None THEN Fail(fsys)
    ELSE LET validated_path == validate_file_path(fsys, WithMd(file_path),
                                                  ws[1], {Md}, "none")
         IN  IF validated_path.kind # "Ok" THEN Fail(fsys)
             ELSE FsWrite(fsys, PathOfCanonical(validated_path.path))

load_document_from_file(fsys, ws, file_path) ==
    IF ws = None THEN Fail(fsys)
    ELSE LET validated_path == validate_path_within_workspace(fsys, file_path,
                                                              ws[1], "none")
         IN  IF validated_path.kind # "Ok" THEN Fail(fsys)
             ELSE FsRead(fsys, PathOfCanonical(validated_path.path), {"file"})

create_new_file(fsys, ws, workspace_path_arg, file_name) ==
    IF ws = None THEN Fail(fsys)
    ELSE LET validated_workspace == validate_directory_path(fsys, workspace_path_arg,
                                                            ws[1], TRUE, "none")
             sanitized_name == sanitize_filename(file_name)
         IN  IF validated_workspace.kind # "Ok" \/ sanitized_name.panic THEN Fail(fsys)
             ELSE FsCreateNew(fsys, PathJoin(PathOfCanonical(validated_workspace.path),
                                             WithMd(sanitized_name.name)))

delete_file(fsys, ws, file_path) ==
    IF ws = None THEN Fail(fsys)
    ELSE LET validated_path == validate_path_within_workspace(fsys, file_path,
                                                              ws[1], "none")
             p == PathOfCanonical(validated_path.path)
         IN  IF validated_path.kind # "Ok" THEN Fail(fsys)
             ELSE IF ~HasFileName(p) \/ ~HasExtension(FileName(p)) THEN Fail(fsys)
             ELSE IF Extension(FileName(p)) # Md THEN Fail(fsys)
             ELSE FsRemoveFile(fsys, p)

\* rename_file and move_file: both paths validated, the source must exist
rename_file(fsys, ws, old_path, new_path) ==
    IF ws = None THEN Fail(fsys)
    ELSE LET validated_old == validate_path_within_workspace(fsys, old_path,
                                                             ws[1], "none")
             validated_new == validate_path_within_workspace(fsys, new_path,
                                                             ws[1], "none")
         IN  IF validated_old.kind # "Ok" \/ validated_new.kind # "Ok" THEN Fail(fsys)
             ELSE IF ~PathExists(fsys, PathOfCanonical(validated_old.path)) THEN Fail(fsys)
             ELSE FsRename(fsys, PathOfCanonical(validated_old.path),
                                 PathOfCanonical(validated_new.path))

move_file(fsys, ws, source_path, dest_path) == rename_file(fsys, ws, source_path, dest_path)

rename_directory(fsys, ws, old_path, new_path) ==
    IF ws = None THEN Fail(fsys)
    ELSE LET validated_old == validate_directory_path(fsys, old_path,
                                                      ws[1], TRUE, "none")
             validated_new == validate_path_within_workspace(fsys, new_path,
                                                             ws[1], "none")
         IN  IF validated_old.kind # "Ok" \/ validated_new.kind # "Ok" THEN Fail(fsys)
             ELSE FsRename(fsys, PathOfCanonical(validated_old.path),
                                 PathOfCanonical(validated_new.path))

delete_directory(fsys, ws, path, recursive) ==
    IF ws = None THEN Fail(fsys)
    ELSE LET validated_path == validate_directory_path(fsys, path,
                                                       ws[1], TRUE, "none")
         IN  IF validated_path.kind # "Ok" THEN Fail(fsys)
             ELSE IF ~CanCanonicalize(fsys, PathNew(ws[1])) THEN Fail(fsys)
             ELSE IF validated_path.path = Canonical(fsys, PathNew(ws[1])) THEN Fail(fsys)
             ELSE IF recursive THEN FsRemoveDirAll(fsys, PathOfCanonical(validated_path.path))
             ELSE FsRemoveDir(fsys, PathOfCanonical(validated_path.path))

copy_file(fsys, ws, source_path, dest_path) ==
    IF ws = None THEN Fail(fsys)
    ELSE LET validated_source == validate_path_within_workspace(fsys, source_path,
                                                                ws[1], "none")
             validated_dest   == validate_path_within_workspace(fsys, dest_path,
                                                                ws[1], "none")
         IN  IF validated_source.kind # "Ok" \/ validated_dest.kind # "Ok" THEN Fail(fsys)
             ELSE IF ~PathExists(fsys, PathOfCanonical(validated_source.path)) THEN Fail(fsys)
             ELSE FsCopy(fsys, PathOfCanonical(validated_source.path),
                               PathOfCanonical(validated_dest.path), {"src", "dst"})

\* Ok(false) for a rejected path, Ok(validated.exists()) otherwise
file_exists(fsys, ws, path) ==
    IF ws = None THEN Fail(fsys)
    ELSE LET validated_path == validate_path_within_workspace(fsys, path,
                                                              ws[1], "none")
             r == Resolve(fsys, PathOfCanonical(validated_path.path))
         IN  IF validated_path.kind # "Ok" THEN Eff(TRUE, {}, fsys)
             ELSE Eff(TRUE, IF r.st = "found" THEN {r.at} ELSE {}, fsys)

get_file_metadata(fsys, ws, file_path) ==
    IF ws = None THEN Fail(fsys)
    ELSE LET validated_path == validate_path_within_workspace(fsys, file_path,
                                                              ws[1], "none")
         IN  IF validated_path.kind # "Ok" THEN Fail(fsys)
             ELSE FsRead(fsys, PathOfCanonical(validated_path.path), {"file", "dir"})

\* commands/workspace.rs: these take the caller's path as it is
create_directory(fsys, path) == FsCreateDirAll(fsys, PathNew(path))

create_default_folders(fsys, workspace_path_arg) ==
    LET workspace == PathNew(workspace_path_arg)
        made      == IF PathExists(fsys, workspace) THEN Eff(TRUE, {}, fsys)
                     ELSE FsCreateDirAll(fsys, workspace)
        quick     == After(made, FsCreateDirAll(made.fs, PathJoin(workspace, QuickNotes)))
        projects  == After(quick, FsCreateDirAll(quick.fs, PathJoin(workspace, Projects)))
    IN  IF ~made.ok THEN made
        ELSE IF ~quick.ok THEN quick
        ELSE projects

create_welcome_document(fsys, workspace_path_arg) ==
    FsWrite(fsys, PathJoin(PathJoin(PathNew(workspace_path_arg), QuickNotes), WelcomeMd))

list_workspace_contents(fsys, directory_path) ==
    IF ~PathExists(fsys, PathNew(directory_path)) THEN Fail(fsys)
    ELSE FsRead(fsys, PathNew(directory_path), {"dir"})

\* Ok(false) when the path is missing or cannot be read as a directory
verify_workspace_path(fsys, path) ==
    IF ~PathExists(fsys, PathNew(path)) THEN Eff(TRUE, {}, fsys)
    ELSE Eff(TRUE, FsRead(fsys, PathNew(path), {"dir"}).touched, fsys)

\* commands/import_export.rs: what is read at the import source and written at
\* the export destination is not recorded, the dialog has picked those
import_markdown_file(fsys, ws, source_path, dest_folder) ==
    IF ws = None THEN Fail(fsys)
    ELSE LET validated_dest == validate_directory_path(fsys, dest_folder, ws[1], TRUE, "none")
             source         == PathNew(source_path)
             sanitized_name == sanitize_filename(FileName(source))
         IN  IF validated_dest.kind # "Ok" THEN Fail(fsys)
             ELSE IF ~PathExists(fsys, source) \/ ~PathIsFile(fsys, source) THEN Fail(fsys)
             ELSE IF ~HasFileName(source) THEN Fail(fsys)
             ELSE IF sanitized_name.panic THEN Fail(fsys)
             ELSE FsCopy(fsys, source,
                         PathJoin(PathOfCanonical(validated_dest.path),
                                  WithMd(sanitized_name.name)),
                         {"dst"})

RECURSIVE copy_dir_recursive(_, _, _)
RECURSIVE CopyEntries(_, _, _, _)
\* the loop of copy_dir_recursive over the entries "names" of the source
CopyEntries(acc, source, dest, names) ==
    IF names = {} \/ ~acc.ok THEN acc
    ELSE LET name == CHOOSE n \in names : TRUE
             from == PathJoin(source, name)
             to   == PathJoin(dest, name)
             step == IF PathIsDir(acc.fs, from)
                     THEN copy_dir_recursive(acc.fs, from, to)
                     ELSE FsCopy(acc.fs, from, to, {"dst"})
         IN  CopyEntries(After(acc, step), source, dest, names \ {name})

copy_dir_recursive(fsys, source, dest) ==
    LET made == FsCreateDirAll(fsys, dest)
        src  == Resolve(made.fs, source)
    IN  IF ~made.ok THEN made
        ELSE IF src.st # "found" \/ Kind(made.fs, src.at) # "dir"
        THEN Eff(FALSE, made.touched, made.fs)
        ELSE CopyEntries(made, source, dest,
                         { Last(m) : m \in Children(made.fs, src.at) })

import_folder(fsys, ws, source_path, dest_folder) ==
    IF ws = None THEN Fail(fsys)
    ELSE LET validated_dest == validate_directory_path(fsys, dest_folder, ws[1], TRUE, "none")
             source         == PathNew(source_path)
             sanitized_name == sanitize_filename(FileName(source))
         IN  IF validated_dest.kind # "Ok" THEN Fail(fsys)
             ELSE IF ~PathExists(fsys, source) \/ ~PathIsDir(fsys, source) THEN Fail(fsys)
             ELSE IF ~HasFileName(source) THEN Fail(fsys)
             ELSE IF sanitized_name.panic THEN Fail(fsys)
             ELSE copy_dir_recursive(fsys, source,
                                     PathJoin(PathOfCanonical(validated_dest.path),
                                              sanitized_name.name))

export_document(fsys, ws, document_path, dest_path) ==
    IF ws = None THEN Fail(fsys)
    ELSE LET validated_source == validate_path_within_workspace(fsys, document_path,
                                                                ws[1], "none")
             dest == PathNew(dest_path)
         IN  IF validated_source.kind # "Ok" THEN Fail(fsys)
             ELSE IF ~PathExists(fsys, PathOfCanonical(validated_source.path)) THEN Fail(fsys)
             ELSE IF HasParent(dest) /\ ~PathExists(fsys, PathParent(dest)) THEN Fail(fsys)
             ELSE FsCopy(fsys, PathOfCanonical(validated_source.path), dest, {"src"})

-----------------------------------------------------------------------------
(* The application: AppState.workspace_path, the filesystem, and the commands  *)
(* the frontend invokes, in any order and with any argument                    *)

\* state.rs: set_workspace_path stores Some(path)
set_workspace_path(path) == Some(path)

\* the folders the dialog can return: /w, and /r, a link to it
DialogFolders == { <<"/">> \o JoinSlash(cs) : cs \in { <<Nw>>, <<Nr>> } }

\* the paths the frontend passes: /w, /w/f.md, /w/k.md, /w/d and /o/n
CmdPaths ==
    { <<"/">> \o JoinSlash(cs) :
        cs \in { <<Nw>>, <<Nw, Nf>>, <<Nw, Nk>>, <<Nw, Nd>>, <<No, Nn>> } }

\* file names for create_new_file: "n" and "../n"
FileNames == { Nn, <<".", ".", "/", "n">> }

\* what the import dialog picks: /o/f.md and /o
ImportSources == { <<"/">> \o JoinSlash(cs) : cs \in { <<No, Nf>>, <<No>> } }

\* what the export dialog picks: /o/n and /we/f.md
ExportDests == { <<"/">> \o JoinSlash(cs) : cs \in { <<No, Nn>>, <<Nwe, Nf>> } }

MaxCommands == 2

InitCommands ==
    /\ fs = BaseFS
    /\ requested_path = <<>>
    /\ workspace_root = <<>>
    /\ call = NoCall
    /\ workspace_path = None
    /\ last = NoCommand
    /\ commands_run = 0
    /\ RegistryIdle
    /\ sanitize_arg = <<>>
    /\ sanitize_ret = None

\* one invocation of the command cmd with outcome eff
Run(cmd, eff) ==
    /\ commands_run' = commands_run + 1
    /\ fs' = eff.fs
    /\ last' = [cmd |-> cmd, ok |-> eff.ok, touched |-> eff.touched]
    /\ UNCHANGED <<requested_path, workspace_root, call, workspace_path, sanitize_vars, registry_vars>>

SelectWorkspaceFolder ==
    /\ commands_run < MaxCommands
    /\ commands_run' = commands_run + 1
    /\ \/ \E folder \in DialogFolders :
            /\ workspace_path' = set_workspace_path(folder)
            /\ last' = [cmd |-> "select_workspace_folder", ok |-> TRUE, touched |-> {}]
       \/ /\ workspace_path' = workspace_path
          /\ last' = [cmd |-> "select_workspace_folder", ok |-> FALSE, touched |-> {}]
    /\ UNCHANGED <<fs, requested_path, workspace_root, call, sanitize_vars, registry_vars>>

ListWorkspaceFiles ==
    /\ commands_run < MaxCommands
    /\ \E p \in CmdPaths :
         Run("list_workspace_files", list_workspace_files(fs, workspace_path, p))

SaveDocumentToFile ==
    /\ commands_run < MaxCommands
    /\ \E p \in CmdPaths :
         Run("save_document_to_file", save_document_to_file(fs, workspace_path, p))

LoadDocumentFromFile ==
    /\ commands_run < MaxCommands
    /\ \E p \in CmdPaths :
         Run("load_document_from_file", load_document_from_file(fs, workspace_path, p))

CreateNewFile ==
    /\ commands_run < MaxCommands
    /\ \E p \in CmdPaths, name \in FileNames :
         Run("create_new_file", create_new_file(fs, workspace_path, p, name))

DeleteFile ==
    /\ commands_run < MaxCommands
    /\ \E p \in CmdPaths :
         Run("delete_file", delete_file(fs, workspace_path, p))

RenameFile ==
    /\ commands_run < MaxCommands
    /\ \E p \in CmdPaths, q \in CmdPaths :
         Run("rename_file", rename_file(fs, workspace_path, p, q))

RenameDirectory ==
    /\ commands_run < MaxCommands
    /\ \E p \in CmdPaths, q \in CmdPaths :
         Run("rename_directory", rename_directory(fs, workspace_path, p, q))

DeleteDirectory ==
    /\ commands_run < MaxCommands
    /\ \E p \in CmdPaths, recursive \in BOOLEAN :
         Run("delete_directory", delete_directory(fs, workspace_path, p, recursive))

CopyFile ==
    /\ commands_run < MaxCommands
    /\ \E p \in CmdPaths, q \in CmdPaths :
         Run("copy_file", copy_file(fs, workspace_path, p, q))

MoveFile ==
    /\ commands_run < MaxCommands
    /\ \E p \in CmdPaths, q \in CmdPaths :
         Run("move_file", move_file(fs, workspace_path, p, q))

FileExists ==
    /\ commands_run < MaxCommands
    /\ \E p \in CmdPaths :
         Run("file_exists", file_exists(fs, workspace_path, p))

GetFileMetadata ==
    /\ commands_run < MaxCommands
    /\ \E p \in CmdPaths :
         Run("get_file_metadata", get_file_metadata(fs, workspace_path, p))

CreateDirectory ==
    /\ commands_run < MaxCommands
    /\ \E p \in CmdPaths :
         Run("create_directory", create_directory(fs, p))

CreateDefaultFolders ==
    /\ commands_run < MaxCommands
    /\ \E p \in CmdPaths :
         Run("create_default_folders", create_default_folders(fs, p))

CreateWelcomeDocument ==
    /\ commands_run < MaxCommands
    /\ \E p \in CmdPaths :
         Run("create_welcome_document", create_welcome_document(fs, p))

ListWorkspaceContents ==
    /\ commands_run < MaxCommands
    /\ \E p \in CmdPaths :
         Run("list_workspace_contents", list_workspace_contents(fs, p))

VerifyWorkspacePath ==
    /\ commands_run < MaxCommands
    /\ \E p \in CmdPaths :
         Run("verify_workspace_path", verify_workspace_path(fs, p))

ImportMarkdownFile ==
    /\ commands_run < MaxCommands
    /\ \E src \in ImportSources, p \in CmdPaths :
         Run("import_markdown_file", import_markdown_file(fs, workspace_path, src, p))

ImportFolder ==
    /\ commands_run < MaxCommands
    /\ \E src \in ImportSources, p \in CmdPaths :
         Run("import_folder", import_folder(fs, workspace_path, src, p))

ExportDocument ==
    /\ commands_run < MaxCommands
    /\ \E p \in CmdPaths, dst \in ExportDests :
         Run("export_document", export_document(fs, workspace_path, p, dst))

NextCommands ==
    \/ SelectWorkspaceFolder
    \/ ListWorkspaceFiles
    \/ SaveDocumentToFile
    \/ LoadDocumentFromFile
    \/ CreateNewFile
    \/ DeleteFile
    \/ RenameFile
    \/ RenameDirectory
    \/ DeleteDirectory
    \/ CopyFile
    \/ MoveFile
    \/ FileExists
    \/ GetFileMetadata
    \/ CreateDirectory
    \/ CreateDefaultFolders
    \/ CreateWelcomeDocument
    \/ ListWorkspaceContents
    \/ VerifyWorkspacePath
    \/ ImportMarkdownFile
    \/ ImportFolder
    \/ ExportDocument

SpecCommands == InitCommands /\ [][NextCommands]_vars

-----------------------------------------------------------------------------
(* state.rs: the watcher registry.  Each method is given as what it does to    *)
(* the map while it holds the mutex: the map it leaves, what it returns and    *)
(* the watchers it drops.                                                      *)

Done(val) == [ok |-> TRUE, val |-> val]

Failed(msg) == [ok |-> FALSE, val |-> msg]

Outcome(map, ret, dropped) == [watchers |-> map, ret |-> ret, dropped |-> dropped]

\* AppState::get_workspace_path, has_workspace, clear_workspace_path on the
\* stored Option<String>
get_workspace_path(ws) ==
    IF ws = None THEN Failed("No workspace configured") ELSE Done(ws[1])

has_workspace(ws) == Done(ws # None)

clear_workspace_path_Keeps(ws) == ws

clear_workspace_path(ws) == None

\* HashMap::get: the entries stored under a key
EntriesFor(map, path) == {e \in map : e.path = path}

WatchersOf(entries) == {e.watcher : e \in entries}

\* the entry added beside the one already stored under the key
register_watcher_NoReplace(map, path, watcher) ==
    Outcome(map \cup {[path |-> path, watcher |-> watcher, event_count |-> 0]},
            Done(EntriesFor(map, path) # {}), {})

\* HashMap::insert puts the entry in the place of the one stored under the key
\* and returns that one, which is dropped at the end of the statement
register_watcher(map, path, watcher) ==
    LET entry == [path |-> path, watcher |-> watcher, event_count |-> 0]
        old   == EntriesFor(map, path)
    IN  Outcome((map \ old) \cup {entry}, Done(old # {}), WatchersOf(old))

\* every entry taken out of the map instead of the entry of the key
remove_watcher_All(map, path) ==
    Outcome({}, Done(EntriesFor(map, path) # {}), WatchersOf(map))

\* the entry taken out of the map and its watcher forgotten instead of dropped
remove_watcher_Forget(map, path) ==
    Outcome(map \ EntriesFor(map, path), Done(EntriesFor(map, path) # {}), {})

\* true returned whether or not there was an entry
remove_watcher_AlwaysTrue(map, path) ==
    Outcome(map \ EntriesFor(map, path), Done(TRUE), WatchersOf(EntriesFor(map, path)))

remove_watcher(map, path) ==
    LET old == EntriesFor(map, path)
    IN  Outcome(map \ old, Done(old # {}), WatchersOf(old))

has_watcher(map, path) == Outcome(map, Done(EntriesFor(map, path) # {}), {})

watcher_count(map) == Outcome(map, Done(Cardinality(map)), {})

get_watched_directories(map) == Outcome(map, Done({e.path : e \in map}), {})

\* the entries counted after the map was emptied
clear_all_watchers_CountAfter(map) == Outcome({}, Done(0), WatchersOf(map))

clear_all_watchers(map) == Outcome({}, Done(Cardinality(map)), WatchersOf(map))

\* an entry made for a key that has none
increment_watcher_event_count_Creates(map, path) ==
    LET old   == EntriesFor(map, path)
        entry == IF old # {} THEN CHOOSE e \in old : TRUE
                 ELSE [path |-> path, watcher |-> 0, event_count |-> 0]
    IN  Outcome((map \ old) \cup {[entry EXCEPT !.event_count = @ + 1]},
                Done(entry.event_count + 1), {})

increment_watcher_event_count(map, path) ==
    LET old == EntriesFor(map, path)
    IN  IF old # {}
        THEN LET entry == CHOOSE e \in old : TRUE
                 count == entry.event_count + 1
             IN  Outcome((map \ {entry}) \cup {[entry EXCEPT !.event_count = count]},
                         Done(count), {})
        ELSE Outcome(map, Failed("No watcher found"), {})

\* Ok(None) without an entry, Ok(Some(stats)) with one; of the stats the count
get_watcher_stats(map, path) ==
    LET old == EntriesFor(map, path)
    IN  IF old # {}
        THEN Outcome(map, Done(Some((CHOOSE e \in old : TRUE).event_count)), {})
        ELSE Outcome(map, Done(None), {})

-----------------------------------------------------------------------------
(* Threads calling the methods of AppState concurrently.  A call waits for the *)
(* mutex, runs its body while holding it and releases it when it returns.      *)

\* the keys used: /w/d and /r/d, two names of one directory
WatchPaths == { <<"/">> \o JoinSlash(cs) : cs \in { <<Nw, Nd>>, <<Nr, Nd>> } }

RegistryOps ==
    {"register_watcher", "remove_watcher", "has_watcher", "watcher_count",
     "get_watched_directories", "clear_all_watchers",
     "increment_watcher_event_count", "get_watcher_stats"}

MaxCalls == 3

\* the calls made so far: those completed and those in progress
CallsMade ==
    Len(calls) + Cardinality({t \in Threads :
                                 threads[t].pc \in {"lock", "locked", "modify", "workspace"}})

InitRegistry ==
    /\ RegistryIdle
    /\ fs = BaseFS
    /\ requested_path = <<>>
    /\ workspace_root = <<>>
    /\ call = NoCall
    /\ workspace_path = None
    /\ last = NoCommand
    /\ commands_run = 0
    /\ sanitize_arg = <<>>
    /\ sanitize_ret = None

rest_vars == <<fs, requested_path, workspace_root, call, workspace_path, last,
               commands_run, sanitize_vars>>

\* a thread calls a method; the caller of register_watcher has created the
\* watcher it passes
Call(t) ==
    /\ threads[t].pc = "idle"
    /\ CallsMade < MaxCalls
    /\ \E op \in RegistryOps, path \in WatchPaths \cup {<<>>} :
         LET created == IF op = "register_watcher" THEN 1 ELSE 0
         IN  /\ (path = <<>>) <=> (op \in {"watcher_count", "get_watched_directories",
                                            "clear_all_watchers"})
             /\ next_watcher' = next_watcher + created
             /\ threads' = [threads EXCEPT ![t] =
                    [Idle EXCEPT !.op = op, !.path = path, !.pc = "lock",
                          !.watcher = IF created = 1 THEN next_watcher + 1 ELSE 0]]
    /\ UNCHANGED <<watchers, lock, calls, released, pumps, rest_vars>>

\* the mutex taken although another thread holds it
MutexFree_NoExclusion == TRUE

\* Mutex::lock returns once no other thread holds the mutex
MutexFree == lock = NoThread

Lock(t) ==
    /\ threads[t].pc = "lock"
    /\ MutexFree
    /\ lock' = t
    /\ threads' = [threads EXCEPT ![t].pc = "locked"]
    /\ UNCHANGED <<watchers, calls, next_watcher, released, pumps, rest_vars>>

\* the body of the method thread t is in, run to its end with the mutex held
Complete(t, out) ==
    /\ watchers' = out.watchers
    /\ released' = released \cup out.dropped
    /\ threads' = [threads EXCEPT ![t].pc = "unlock", ![t].ret = out.ret]
    /\ calls' = Append(calls, [op |-> threads[t].op,
                               path |-> threads[t].path, watcher |-> threads[t].watcher,
                               ret |-> out.ret, before |-> watchers,
                               after |-> out.watchers, dropped |-> out.dropped])
    /\ UNCHANGED <<lock, next_watcher, pumps, rest_vars>>

In(t, op) == threads[t].pc = "locked" /\ threads[t].op = op

RegisterWatcher(t) ==
    /\ In(t, "register_watcher")
    /\ Complete(t, register_watcher(watchers, threads[t].path, threads[t].watcher))

RemoveWatcher(t) ==
    /\ In(t, "remove_watcher")
    /\ Complete(t, remove_watcher(watchers, threads[t].path))

HasWatcher(t) ==
    /\ In(t, "has_watcher")
    /\ Complete(t, has_watcher(watchers, threads[t].path))

WatcherCount(t) ==
    /\ In(t, "watcher_count")
    /\ Complete(t, watcher_count(watchers))

ClearAllWatchers(t) ==
    /\ In(t, "clear_all_watchers")
    /\ Complete(t, clear_all_watchers(watchers))

GetWatchedDirectories(t) ==
    /\ In(t, "get_watched_directories")
    /\ Complete(t, get_watched_directories(watchers))

\* the map with the count of path's entry as a thread has read it
WithCount(map, path, count) ==
    {IF e.path = path THEN [e EXCEPT !.event_count = count] ELSE e : e \in map}

\* line 236 and the read of `entry.event_count += 1`: the entry is looked up and
\* its count read; without an entry the call fails at once
IncrementRead(t) ==
    /\ In(t, "increment_watcher_event_count")
    /\ LET found == EntriesFor(watchers, threads[t].path)
       IN  IF found = {}
           THEN Complete(t, increment_watcher_event_count(watchers, threads[t].path))
           ELSE /\ threads' = [threads EXCEPT
                       ![t].pc = "modify",
                       ![t].count = (CHOOSE e \in found : TRUE).event_count]
                /\ UNCHANGED <<watchers, lock, calls, next_watcher, released, pumps,
                               rest_vars>>

\* lines 237-238: the count read plus one is stored and returned
IncrementWatcherEventCount(t) ==
    /\ threads[t].pc = "modify"
    /\ Complete(t, increment_watcher_event_count(
                       WithCount(watchers, threads[t].path, threads[t].count),
                       threads[t].path))

GetWatcherStats(t) ==
    /\ In(t, "get_watcher_stats")
    /\ Complete(t, get_watcher_stats(watchers, threads[t].path))

\* the method returns: the guard goes out of scope and the mutex is released
Unlock(t) ==
    /\ threads[t].pc = "unlock"
    /\ lock' = IF lock = t THEN NoThread ELSE lock
    /\ threads' = [threads EXCEPT ![t] = Idle]
    /\ UNCHANGED <<watchers, calls, next_watcher, released, pumps, rest_vars>>

NextRegistry ==
    \E t \in Threads :
        \/ Call(t)
        \/ Lock(t)
        \/ RegisterWatcher(t)
        \/ RemoveWatcher(t)
        \/ HasWatcher(t)
        \/ WatcherCount(t)
        \/ ClearAllWatchers(t)
        \/ GetWatchedDirectories(t)
        \/ IncrementRead(t)
        \/ IncrementWatcherEventCount(t)
        \/ GetWatcherStats(t)
        \/ Unlock(t)

SpecRegistry == InitRegistry /\ [][NextRegistry]_vars

-----------------------------------------------------------------------------
(* AppState as a whole: the methods on the workspace path beside the methods   *)
(* of the registry that act on one key.  workspace_path has a mutex of its     *)
(* own; the body of each of its methods is one statement under it, one step.   *)

KeyedOps == {"register_watcher", "remove_watcher", "increment_watcher_event_count"}

WorkspaceOps ==
    {"set_workspace_path", "get_workspace_path", "has_workspace", "clear_workspace_path"}

CallKeyed(t) ==
    /\ threads[t].pc = "idle"
    /\ CallsMade < MaxCalls
    /\ \E op \in KeyedOps, path \in WatchPaths :
         LET created == IF op = "register_watcher" THEN 1 ELSE 0
         IN  /\ next_watcher' = next_watcher + created
             /\ threads' = [threads EXCEPT ![t] =
                    [Idle EXCEPT !.op = op, !.path = path, !.pc = "lock",
                          !.watcher = IF created = 1 THEN next_watcher + 1 ELSE 0]]
    /\ UNCHANGED <<watchers, lock, calls, released, pumps, rest_vars>>

workspace_frame == <<fs, requested_path, workspace_root, call, last, commands_run,
                     sanitize_vars, watchers, lock, next_watcher, released, pumps>>

\* a thread calls a method on the workspace path; set_workspace_path is given
\* a folder
CallWorkspace(t) ==
    /\ threads[t].pc = "idle"
    /\ CallsMade < MaxCalls
    /\ \E op \in WorkspaceOps, path \in DialogFolders \cup {<<>>} :
         /\ (path = <<>>) <=> (op # "set_workspace_path")
         /\ threads' = [threads EXCEPT ![t] =
                [Idle EXCEPT !.op = op, !.path = path, !.pc = "workspace"]]
    /\ UNCHANGED <<workspace_path, calls, workspace_frame>>

\* the body of the method under the mutex of workspace_path, and its return
WorkspaceComplete(t, stored, ret) ==
    /\ workspace_path' = stored
    /\ threads' = [threads EXCEPT ![t] = Idle]
    /\ calls' = Append(calls, [op |-> threads[t].op, path |-> threads[t].path,
                               watcher |-> 0, ret |-> ret,
                               before |-> watchers, after |-> watchers,
                               dropped |-> {},
                               stored_before |-> workspace_path,
                               stored_after |-> stored])
    /\ UNCHANGED workspace_frame

InWorkspace(t, op) == threads[t].pc = "workspace" /\ threads[t].op = op

SetWorkspacePath(t) ==
    /\ InWorkspace(t, "set_workspace_path")
    /\ WorkspaceComplete(t, set_workspace_path(threads[t].path), Done("unit"))

GetWorkspacePath(t) ==
    /\ InWorkspace(t, "get_workspace_path")
    /\ WorkspaceComplete(t, workspace_path, get_workspace_path(workspace_path))

HasWorkspace(t) ==
    /\ InWorkspace(t, "has_workspace")
    /\ WorkspaceComplete(t, workspace_path, has_workspace(workspace_path))

ClearWorkspacePath(t) ==
    /\ InWorkspace(t, "clear_workspace_path")
    /\ WorkspaceComplete(t, clear_workspace_path(workspace_path), Done("unit"))

NextAppState ==
    \E t \in Threads :
        \/ CallKeyed(t)
        \/ Lock(t)
        \/ RegisterWatcher(t)
        \/ RemoveWatcher(t)
        \/ IncrementRead(t)
        \/ IncrementWatcherEventCount(t)
        \/ Unlock(t)
        \/ CallWorkspace(t)
        \/ SetWorkspacePath(t)
        \/ GetWorkspacePath(t)
        \/ HasWorkspace(t)
        \/ ClearWorkspacePath(t)

SpecAppState == InitRegistry /\ [][NextAppState]_vars

-----------------------------------------------------------------------------
(* A poisoned mutex.  A panic while a MutexGuard is alive poisons the mutex:   *)
(* every later lock() returns Err, holding a guard that the caller drops.      *)
(* register_watcher, remove_watcher and clear_all_watchers drop watchers while *)
(* the guard is alive, and the drop of a watcher can panic.                    *)

Poisoned == "poisoned"

LockFailed == Failed("Failed to lock watchers")

\* what each method returns when lock() fails: `map_err(..)?` in most,
\* `unwrap_or(false)` in has_watcher, `unwrap_or(0)` in watcher_count
OnPoisonedLock(op) ==
    IF op = "has_watcher" THEN Done(FALSE)
    ELSE IF op = "watcher_count" THEN Done(0)
    ELSE LockFailed

\* the drop of the watchers a method takes out of the map panics: the map is
\* already changed, the call never returns and the mutex is left poisoned
PanicInDrop(t) ==
    /\ threads[t].pc = "locked"
    /\ lock = t
    /\ threads[t].op \in {"register_watcher", "remove_watcher", "clear_all_watchers"}
    /\ LET out == IF threads[t].op = "register_watcher"
                  THEN register_watcher(watchers, threads[t].path, threads[t].watcher)
                  ELSE IF threads[t].op = "remove_watcher"
                  THEN remove_watcher(watchers, threads[t].path)
                  ELSE clear_all_watchers(watchers)
       IN  /\ out.dropped # {}
           /\ watchers' = out.watchers
           /\ released' = released \cup out.dropped
           /\ calls' = Append(calls, [op |-> threads[t].op, path |-> threads[t].path,
                                      watcher |-> threads[t].watcher, ret |-> NoRet,
                                      before |-> watchers, after |-> out.watchers,
                                      dropped |-> out.dropped])
    /\ lock' = Poisoned
    /\ threads' = [threads EXCEPT ![t] = Idle]
    /\ UNCHANGED <<next_watcher, pumps, rest_vars>>

\* lock() on the poisoned mutex: the method returns at once, and the watcher
\* passed to register_watcher is dropped with the call
LockPoisoned(t) ==
    /\ threads[t].pc = "lock"
    /\ lock = Poisoned
    /\ LET ret     == OnPoisonedLock(threads[t].op)
           dropped == IF threads[t].op = "register_watcher"
                      THEN {threads[t].watcher} ELSE {}
       IN  /\ threads' = [threads EXCEPT ![t].pc = "unlock", ![t].ret = ret]
           /\ released' = released \cup dropped
           /\ calls' = Append(calls, [op |-> threads[t].op, path |-> threads[t].path,
                                      watcher |-> threads[t].watcher, ret |-> ret,
                                      before |-> watchers, after |-> watchers,
                                      dropped |-> dropped])
    /\ UNCHANGED <<watchers, lock, next_watcher, pumps, rest_vars>>

NextPoison ==
    \/ NextRegistry
    \/ \E t \in Threads :
         \/ PanicInDrop(t)
         \/ LockPoisoned(t)

SpecPoison == InitRegistry /\ [][NextPoison]_vars

-----------------------------------------------------------------------------
(* commands/file_watcher.rs: watch_directory step by step, the commands that   *)
(* stop watchers, the notify backend calling the watcher's callback and the    *)
(* listener thread that watch_directory spawns.  Every section of code under   *)
(* the mutex is one step.                                                      *)

MaxWatchCommands == 2

MaxEvents == 1

\* the channel and listener of a watcher just created: the callback owns the
\* sender, nothing is queued, no native watch is started, no listener spawned
NewPump(path) ==
    [path |-> path, tx_open |-> TRUE, rx_open |-> TRUE, queued |-> 0,
     received |-> 0, watching |-> FALSE, dir |-> <<>>, listener |-> "none"]

\* the watchers a run can create, and those created so far
Handles == 1..MaxWatchCommands

PumpIds == 1..Len(pumps)

\* the events sent into the channels so far
EventsSent ==
    LET RECURSIVE Sum(_)
        Sum(n) == IF n = 0 THEN 0
                  ELSE pumps[n].queued + pumps[n].received + Sum(n - 1)
    IN  Sum(Len(pumps))

InitWatch ==
    /\ RegistryIdle
    /\ fs = BaseFS
    /\ requested_path = <<>>
    /\ workspace_root = <<>>
    /\ call = NoCall
    /\ workspace_path = set_workspace_path(<<"/">> \o Nw)
    /\ last = NoCommand
    /\ commands_run = 0
    /\ sanitize_arg = <<>>
    /\ sanitize_ret = None

watch_frame == <<fs, requested_path, workspace_root, call, workspace_path, last,
                 sanitize_vars, calls, lock>>

\* thread t is at step pc of watch_directory
At(t, pc) == threads[t].op = "watch_directory" /\ threads[t].pc = pc

Goto(t, pc) == threads' = [threads EXCEPT ![t].pc = pc]

\* the command returns ret to the frontend
Return(t, ret) == threads' = [threads EXCEPT ![t] = Idle]

\* a section under the mutex: the method's outcome applied to the registry
Apply(out) ==
    /\ MutexFree
    /\ watchers' = out.watchers
    /\ released' = released \cup out.dropped

\* lines 70-74: the workspace is read and the directory validated
WdValidate(t) ==
    /\ threads[t].pc = "idle"
    /\ commands_run < MaxWatchCommands
    /\ commands_run' = commands_run + 1
    /\ \E directory_path \in WatchPaths :
         LET workspace == get_workspace_path(workspace_path)
             validated_path == validate_directory_path(fs, directory_path,
                                                       workspace.val, TRUE, "none")
         IN  threads' = [threads EXCEPT ![t] =
                 IF ~workspace.ok \/ validated_path.kind # "Ok" THEN Idle
                 ELSE [Idle EXCEPT !.op = "watch_directory", !.path = directory_path,
                                   !.pc = "has_watcher",
                                   !.validated_path = validated_path.path]]
    /\ UNCHANGED <<watchers, released, next_watcher, pumps, watch_frame>>

\* lines 77-80: nothing more is done when the path string has an entry
WdHasWatcher(t) ==
    /\ At(t, "has_watcher")
    /\ MutexFree
    /\ IF has_watcher(watchers, threads[t].path).ret.val
       THEN Return(t, Done("already watching"))
       ELSE Goto(t, "create")
    /\ UNCHANGED <<watchers, released, next_watcher, pumps, commands_run, watch_frame>>

\* the native watch started when the watcher is created, before the entry is
\* registered
WdCreateWatcher_WatchFirst(t) ==
    /\ At(t, "create")
    /\ \/ /\ next_watcher' = next_watcher + 1
          /\ pumps' = Append(pumps, [NewPump(threads[t].path) EXCEPT
                                        !.watching = TRUE,
                                        !.dir = threads[t].validated_path])
          /\ threads' = [threads EXCEPT ![t].pc = "register",
                                        ![t].watcher = next_watcher + 1]
       \/ /\ Return(t, Failed("Failed to create watcher"))
          /\ UNCHANGED <<next_watcher, pumps>>
    /\ UNCHANGED <<watchers, released, commands_run, watch_frame>>

\* lines 83-100: the channel and the watcher whose callback sends into it;
\* RecommendedWatcher::new can fail
WdCreateWatcher(t) ==
    /\ At(t, "create")
    /\ \/ /\ next_watcher' = next_watcher + 1
          /\ pumps' = Append(pumps, NewPump(threads[t].path))
          /\ threads' = [threads EXCEPT ![t].pc = "register",
                                        ![t].watcher = next_watcher + 1]
       \/ /\ Return(t, Failed("Failed to create watcher"))
          /\ UNCHANGED <<next_watcher, pumps>>
    /\ UNCHANGED <<watchers, released, commands_run, watch_frame>>

\* line 104
WdRegister(t) ==
    /\ At(t, "register")
    /\ Apply(register_watcher(watchers, threads[t].path, threads[t].watcher))
    /\ Goto(t, "watch")
    /\ UNCHANGED <<next_watcher, pumps, commands_run, watch_frame>>

\* lines 108-122: under the mutex again, the native watch is started on the
\* watcher of the entry now stored under the path string, if there is one;
\* starting it can fail
WdWatch(t) ==
    /\ At(t, "watch")
    /\ MutexFree
    /\ LET found == EntriesFor(watchers, threads[t].path)
           w     == (CHOOSE e \in found : TRUE).watcher
       IN  IF found = {}
           THEN Goto(t, "spawn") /\ UNCHANGED pumps
           ELSE \/ /\ pumps' = [pumps EXCEPT ![w].watching = TRUE,
                                             ![w].dir = threads[t].validated_path]
                   /\ Goto(t, "spawn")
                \/ /\ Goto(t, "cleanup")
                   /\ UNCHANGED pumps
    /\ UNCHANGED <<watchers, released, next_watcher, commands_run, watch_frame>>

\* lines 116-119: the guard is dropped, the entry under the path string is
\* removed and the error is returned; the receiver is dropped with the call
WdCleanup(t) ==
    /\ At(t, "cleanup")
    /\ Apply(remove_watcher(watchers, threads[t].path))
    /\ Return(t, Failed("Failed to watch directory"))
    /\ pumps' = [pumps EXCEPT ![threads[t].watcher].rx_open = FALSE]
    /\ UNCHANGED <<next_watcher, commands_run, watch_frame>>

\* lines 127-167: the listener thread is spawned on the receiver; Ok(())
WdSpawn(t) ==
    /\ At(t, "spawn")
    /\ pumps' = [pumps EXCEPT ![threads[t].watcher].listener = "running"]
    /\ Return(t, Done("watching"))
    /\ UNCHANGED <<watchers, released, next_watcher, commands_run, watch_frame>>

StopWatching(t) ==
    /\ threads[t].pc = "idle"
    /\ commands_run < MaxWatchCommands
    /\ commands_run' = commands_run + 1
    /\ \E directory_path \in WatchPaths :
         Apply(remove_watcher(watchers, directory_path))
    /\ UNCHANGED <<threads, next_watcher, pumps, watch_frame>>

StopAllWatchers(t) ==
    /\ threads[t].pc = "idle"
    /\ commands_run < MaxWatchCommands
    /\ commands_run' = commands_run + 1
    /\ Apply(clear_all_watchers(watchers))
    /\ UNCHANGED <<threads, next_watcher, pumps, watch_frame>>

\* lib.rs, on_window_event: the registry is cleared when the window is closed
CloseRequested ==
    /\ commands_run < MaxWatchCommands
    /\ commands_run' = commands_run + 1
    /\ Apply(clear_all_watchers(watchers))
    /\ UNCHANGED <<threads, next_watcher, pumps, watch_frame>>

\* the backend reports a change under a watched directory: the callback of
\* lines 93-97 sends the event into the channel, and ignores a failed send
Notify(h) ==
    /\ h \in PumpIds
    /\ pumps[h].watching
    /\ pumps[h].tx_open
    /\ EventsSent < MaxEvents
    /\ pumps' = [pumps EXCEPT ![h].queued = IF pumps[h].rx_open THEN @ + 1 ELSE @]
    /\ UNCHANGED <<watchers, released, threads, next_watcher, commands_run, watch_frame>>

\* the sender is dropped with the callback
SenderDropped_Kept(p) == [p EXCEPT !.watching = FALSE]

SenderDropped(p) == [p EXCEPT !.tx_open = FALSE, !.watching = FALSE]

\* a watcher dropped out of the registry stops its backend, which drops the
\* callback and with it the sender
WatcherDropped(h) ==
    /\ h \in PumpIds
    /\ h \in released
    /\ pumps[h].tx_open
    /\ pumps' = [pumps EXCEPT ![h] = SenderDropped(pumps[h])]
    /\ UNCHANGED <<watchers, released, threads, next_watcher, commands_run, watch_frame>>

\* lines 128-161: one turn of `for event in rx`: the event is filtered and
\* emitted to the frontend; the registry is not touched
ListenerRecv(h) ==
    /\ h \in PumpIds
    /\ pumps[h].listener = "running"
    /\ pumps[h].queued > 0
    /\ pumps' = [pumps EXCEPT ![h].queued = @ - 1, ![h].received = @ + 1]
    /\ UNCHANGED <<watchers, released, threads, next_watcher, commands_run, watch_frame>>

\* lines 128, 163: the loop ends when the channel is empty and its sender gone
ListenerExit(h) ==
    /\ h \in PumpIds
    /\ pumps[h].listener = "running"
    /\ pumps[h].queued = 0
    /\ ~pumps[h].tx_open
    /\ pumps' = [pumps EXCEPT ![h].listener = "exited", ![h].rx_open = FALSE]
    /\ UNCHANGED <<watchers, released, threads, next_watcher, commands_run, watch_frame>>

NextWatch ==
    \/ \E t \in Threads :
         \/ WdValidate(t)
         \/ WdHasWatcher(t)
         \/ WdCreateWatcher(t)
         \/ WdRegister(t)
         \/ WdWatch(t)
         \/ WdCleanup(t)
         \/ WdSpawn(t)
         \/ StopWatching(t)
         \/ StopAllWatchers(t)
    \/ CloseRequested
    \/ \E h \in Handles :
         \/ Notify(h)
         \/ WatcherDropped(h)
         \/ ListenerRecv(h)
         \/ ListenerExit(h)

SpecWatch == InitWatch /\ [][NextWatch]_vars

\* the listener thread and the backend's shutdown are scheduled by the
\* operating system: each takes its step if it stays able to
FairWatch ==
    \A h \in Handles :
        /\ WF_vars(WatcherDropped(h))
        /\ WF_vars(ListenerRecv(h))
        /\ WF_vars(ListenerExit(h))

SpecWatchFair == SpecWatch /\ FairWatch

\* watch_directory alone: calls that run beside each other while no watcher
\* is stopped by a command or by the close handler
NextWatchStart ==
    \/ \E t \in Threads :
         \/ WdValidate(t)
         \/ WdHasWatcher(t)
         \/ WdCreateWatcher(t)
         \/ WdRegister(t)
         \/ WdWatch(t)
         \/ WdCleanup(t)
         \/ WdSpawn(t)
    \/ \E h \in Handles :
         \/ Notify(h)
         \/ WatcherDropped(h)
         \/ ListenerRecv(h)
         \/ ListenerExit(h)

SpecWatchStart == InitWatch /\ [][NextWatchStart]_vars

\* the session: the file watching commands and the selection of a workspace
NextSession ==
    \/ NextWatch
    \/ SelectWorkspaceFolder

SpecSession == InitWatch /\ [][NextSession]_vars

-----------------------------------------------------------------------------
(* commands/file_operations.rs: create_new_file called by concurrent threads.  *)
(* The path is validated and built first; the file is then opened with         *)
(* create_new, one system call.                                                *)

\* the names asked for: n (new), f.md (a file of the workspace) and k.md (a
\* symbolic link in the workspace)
CreateNames == {Nn, Nf, Nk}

CreatesMade == Len(calls) + Cardinality({t \in Threads : threads[t].pc = "open"})

create_frame == <<requested_path, workspace_root, call, workspace_path, last,
                  commands_run, sanitize_vars, watchers, lock, next_watcher,
                  released, pumps>>

\* lines 205-219: the workspace is read, the directory validated, the name
\* sanitized and joined to the validated directory
CreateValidate(t) ==
    /\ threads[t].pc = "idle"
    /\ CreatesMade < MaxCalls
    /\ \E workspace_path_arg \in DialogFolders, file_name \in CreateNames :
         LET workspace == get_workspace_path(workspace_path)
             validated_workspace == validate_directory_path(fs, workspace_path_arg,
                                                            workspace.val, TRUE, "none")
             sanitized_name == sanitize_filename(file_name)
             file_path == PathJoin(PathOfCanonical(validated_workspace.path),
                                   WithMd(sanitized_name.name))
         IN  threads' = [threads EXCEPT ![t] =
                 IF ~workspace.ok \/ validated_workspace.kind # "Ok"
                    \/ sanitized_name.panic
                 THEN Idle
                 ELSE [Idle EXCEPT !.op = "create_new_file", !.path = file_name,
                                   !.pc = "open",
                                   !.validated_path = file_path.comps]]
    /\ UNCHANGED <<fs, calls, create_frame>>

\* lines 231-247: OpenOptions::new().write(true).create_new(true).open, the
\* content written and the path returned
CreateOpen(t) ==
    /\ threads[t].pc = "open"
    /\ LET file_path == PathOfCanonical(threads[t].validated_path)
           eff == FsCreateNew(fs, file_path)
       IN  /\ fs' = eff.fs
           /\ calls' = Append(calls,
                  [op |-> "create_new_file", path |-> file_path.comps,
                   ret |-> IF eff.ok THEN Done(file_path.comps)
                           ELSE IF Entry(fs, file_path).st = "found"
                           THEN Failed("File already exists")
                           ELSE Failed("Failed to create file"),
                   existed |-> Kind(fs, file_path.comps) # "none",
                   raced |-> \E u \in Threads \ {t} :
                                 /\ threads[u].pc = "open"
                                 /\ threads[u].validated_path = file_path.comps,
                   touched |-> eff.touched,
                   unchanged |-> eff.fs = fs])
    /\ threads' = [threads EXCEPT ![t] = Idle]
    /\ UNCHANGED create_frame

NextCreate == \E t \in Threads : CreateValidate(t) \/ CreateOpen(t)

SpecCreate == InitWatch /\ [][NextCreate]_vars

-----------------------------------------------------------------------------
(* Properties of PathGuard, checked under SpecPathGuard *)

ReqP == PathNew(requested_path)

RootP == PathNew(workspace_root)

RootExists == PathExists(fs, RootP)

RootValid == PathIsDir(fs, RootP)

RootCanon == Canonical(fs, RootP)

Inside(path) == IsPrefix(RootCanon, path)

Validated == call.op = "validate"

\* a component, after splitting on "/" and "\", that is exactly ".."
DotDotRequested ==
    LET parts == Split(requested_path, {"/", "\\"})
    IN  \E i \in 1..Len(parts) : parts[i] = DotDot

TraversalRequested == DotDotRequested \/ HasUrlPattern(requested_path)

\* step 4 of validate: the requested path resolves when it exists or its parent does
Step4Defined ==
    \/ PathExists(fs, ReqP)
    \/ /\ HasParent(ReqP) /\ HasFileName(ReqP)
       /\ PathExists(fs, PathParent(ReqP))

Step4Path ==
    IF PathExists(fs, ReqP) THEN Canonical(fs, ReqP)
    ELSE Append(Canonical(fs, PathParent(ReqP)), Last(ReqP.comps))

\* C1: whenever validate_path_within_workspace returns Ok(p), p is the canonical
\* root or a descendant of it, component by component
C1_AcceptedInsideRoot ==
    (Validated /\ call.result.kind = "Ok")
        => (RootValid /\ Inside(call.result.path))

C1_Witness ==
    /\ Validated /\ call.result.kind = "Ok"
    /\ Len(call.result.path) > Len(RootCanon)
    /\ workspace_root = <<"/", "r">>

\* C2: the location a read or write through an accepted path acts on, once the
\* symbolic links in it are followed, lies inside the canonical workspace root
C2_SymlinkConfined ==
    (Validated /\ call.result.kind = "Ok")
        => Inside(ActsOn(fs, PathOfCanonical(call.result.path)))

\* the canonical form of the configured workspace root
ConfiguredRoot == Canonical(fs, PathNew(workspace_path[1]))

WorkspaceConfigured ==
    workspace_path # None /\ PathIsDir(fs, PathNew(workspace_path[1]))

\* C3: once a workspace is configured, every location a command reads, creates,
\* writes, renames or deletes (import sources and export destinations aside)
\* lies inside the canonical workspace root, whatever commands came before
C3_CommandsStayInWorkspace ==
    WorkspaceConfigured =>
        \A loc \in last.touched : IsPrefix(ConfiguredRoot, loc)

\* the call has returned or panicked
Sanitized == sanitize_ret # None

SanitizeResult == sanitize_ret[1]

\* C11: sanitize_filename is total: for every input it returns, without
\* panicking, a non-empty string of at most 200 bytes with none of
\* < > : " / \ | * ? and no control character in it
C11_SanitizeTotal ==
    Sanitized =>
        /\ ~SanitizeResult.panic
        /\ SanitizeResult.name # <<>>
        /\ ByteLen(SanitizeResult.name) <= MaxFilenameLen
        /\ \A i \in 1..Len(SanitizeResult.name) :
               SanitizeResult.name[i] \notin invalid_chars \cup ControlChars

\* C12: the string sanitize_filename returns has no whitespace and no '.' at
\* either end, also for inputs with dots and whitespace mixed at their ends
\* and for results cut at the length limit
C12_SanitizeTrimmed ==
    (Sanitized /\ ~SanitizeResult.panic) =>
        /\ SanitizeResult.name # <<>>
        /\ Head(SanitizeResult.name) \notin WhiteSpace \cup {"."}
        /\ Last(SanitizeResult.name) \notin WhiteSpace \cup {"."}

\* the calls in "calls", by position
CallIds == 1..Len(calls)

IsCall(i, op, path) == calls[i].op = op /\ calls[i].path = path

HasKey(map, path) == \E e \in map : e.path = path

KeysOf(map) == {e.path : e \in map}

\* call j takes the key away if it was there
Unregisters(j, path) ==
    IsCall(j, "remove_watcher", path) \/ calls[j].op = "clear_all_watchers"

\* by the calls before call i, path is registered when call i runs
RegisteredBefore(i, path) ==
    \E j \in 1..(i - 1) :
        /\ IsCall(j, "register_watcher", path)
        /\ \A k \in (j + 1)..(i - 1) : ~Unregisters(k, path)

\* C13: register_watcher returns false when the key had no entry and true when
\* it replaced one: false the first time, true on every later call for the key
\* with no removal in between, and the key then has one entry, which is what
\* watcher_count counts
C13_RegisterReplaces ==
    \A i \in CallIds :
        /\ calls[i].op = "register_watcher" =>
             /\ calls[i].ret = Done(RegisteredBefore(i, calls[i].path))
             /\ calls[i].ret = Done(HasKey(calls[i].before, calls[i].path))
             /\ Cardinality({e \in calls[i].after : e.path = calls[i].path}) = 1
        /\ calls[i].op = "watcher_count" =>
             calls[i].ret = Done(Cardinality({p \in WatchPaths : RegisteredBefore(i, p)}))

C13_Witness ==
    /\ Len(calls) = 3
    /\ \E p \in WatchPaths :
         /\ IsCall(1, "register_watcher", p) /\ calls[1].ret = Done(FALSE)
         /\ IsCall(2, "register_watcher", p) /\ calls[2].ret = Done(TRUE)
    /\ calls[3].op = "watcher_count" /\ calls[3].ret = Done(1)

\* the threads that hold the mutex
Holders == {t \in Threads : threads[t].pc \in {"locked", "modify", "unlock"}}

\* C14: in every interleaving each key has at most one entry and no two
\* threads are inside the map at once; replacing an entry is atomic: a
\* has_watcher for a key that was registered and not removed or cleared since
\* never returns false, whatever re-registration runs beside it
C14_AtMostOneEntry ==
    /\ \A p \in WatchPaths : Cardinality({e \in watchers : e.path = p}) <= 1
    /\ Cardinality(Holders) <= 1
    /\ \A t \in Threads : (t \in Holders) <=> (lock = t)
    /\ \A i \in CallIds :
         calls[i].op = "has_watcher" =>
             calls[i].ret = Done(RegisteredBefore(i, calls[i].path))

\* a has_watcher waits for the mutex while another thread, still holding it,
\* has just registered the key again
C14_Witness ==
    /\ Len(calls) = 2
    /\ \E p \in WatchPaths :
         /\ IsCall(1, "register_watcher", p)
         /\ IsCall(2, "register_watcher", p) /\ calls[2].ret = Done(TRUE)
         /\ \E t \in Threads, u \in Threads :
                /\ threads[t].pc = "lock" /\ threads[t].op = "has_watcher"
                /\ threads[t].path = p
                /\ threads[u].pc = "unlock" /\ threads[u].op = "register_watcher"

\* the watchers handed to register_watcher calls that have run
Handed == {calls[i].watcher : i \in {j \in CallIds : calls[j].op = "register_watcher"}}

\* C15: no watcher leaks: the watchers handed to register_watcher and not
\* released are exactly those owned by the entries in the map, and a watcher
\* that a call took out of the map is released when that call is done
C15_NoLeak ==
    /\ Handed \ released = {e.watcher : e \in watchers}
    /\ \A i \in CallIds :
         {e.watcher : e \in calls[i].before} \ {e.watcher : e \in calls[i].after}
             \subseteq released

\* a replacement, then a removal: both watchers released
C15_Witness ==
    /\ Len(calls) = 3
    /\ \E p \in WatchPaths :
         /\ IsCall(1, "register_watcher", p)
         /\ IsCall(2, "register_watcher", p)
         /\ IsCall(3, "remove_watcher", p)
    /\ released = {1, 2}

\* C16: remove_watcher returns true exactly when the key had an entry; then
\* the key has none and the map is smaller by one; a second remove_watcher
\* with no register_watcher for the key in between returns false and changes
\* nothing
C16_Remove ==
    \A i \in CallIds :
        LET c == calls[i]
        IN  c.op = "remove_watcher" =>
              /\ c.ret = Done(RegisteredBefore(i, c.path))
              /\ ~HasKey(c.after, c.path)
              /\ Cardinality(c.after) =
                     Cardinality(c.before) - (IF c.ret.val THEN 1 ELSE 0)
              /\ ~c.ret.val => c.after = c.before
              /\ \A j \in 1..(i - 1) :
                     ( /\ IsCall(j, "remove_watcher", c.path)
                       /\ \A k \in (j + 1)..(i - 1) :
                              ~IsCall(k, "register_watcher", c.path) )
                         => (c.ret = Done(FALSE) /\ c.after = c.before)

C16_Witness ==
    /\ Len(calls) = 3
    /\ \E p \in WatchPaths :
         /\ IsCall(1, "register_watcher", p)
         /\ IsCall(2, "remove_watcher", p) /\ calls[2].ret = Done(TRUE)
         /\ IsCall(3, "remove_watcher", p) /\ calls[3].ret = Done(FALSE)

\* C17: clear_all_watchers returns the number of entries there were, 0 and no
\* error when there were none, and a watcher_count that comes next returns 0
C17_ClearAll ==
    \A i \in CallIds :
        calls[i].op = "clear_all_watchers" =>
            /\ calls[i].ret = Done(Cardinality({p \in WatchPaths : RegisteredBefore(i, p)}))
            /\ calls[i].after = {}
            /\ (i + 1 \in CallIds /\ calls[i + 1].op = "watcher_count")
                   => calls[i + 1].ret = Done(0)

C17_Witness ==
    /\ Len(calls) = 3
    /\ calls[1].op = "register_watcher"
    /\ calls[2].op = "clear_all_watchers" /\ calls[2].ret = Done(1)
    /\ calls[3].op = "watcher_count" /\ calls[3].ret = Done(0)

\* the number of increments for path since it was last registered before call i
IncrementsBefore(i, path) ==
    Cardinality({ k \in 1..(i - 1) :
                    /\ IsCall(k, "increment_watcher_event_count", path)
                    /\ RegisteredBefore(k, path)
                    /\ \A j \in (k + 1)..(i - 1) :
                           ~Unregisters(j, path) /\ ~IsCall(j, "register_watcher", path) })

\* C18: increment_watcher_event_count on a registered key returns the count so
\* far plus one and get_watcher_stats reports the count; a new entry starts at
\* 0 and the count of an entry never goes down; on a key with no entry the
\* call fails and the map stays as it was, no entry made
C18_EventCount ==
    \A i \in CallIds :
        LET c == calls[i]
        IN  /\ c.op = "increment_watcher_event_count" =>
                 IF RegisteredBefore(i, c.path)
                 THEN c.ret = Done(IncrementsBefore(i, c.path) + 1)
                 ELSE ~c.ret.ok /\ c.after = c.before
            /\ c.op = "get_watcher_stats" =>
                 c.ret = Done(IF RegisteredBefore(i, c.path)
                              THEN Some(IncrementsBefore(i, c.path)) ELSE None)
            /\ c.op = "register_watcher" =>
                 \A e \in c.after : e.watcher = c.watcher => e.event_count = 0
            /\ \A e \in c.before, f \in c.after :
                 e.watcher = f.watcher => e.event_count <= f.event_count

C18_Witness ==
    /\ Len(calls) = 3
    /\ \E p \in WatchPaths :
         /\ IsCall(1, "register_watcher", p)
         /\ IsCall(2, "increment_watcher_event_count", p) /\ calls[2].ret = Done(1)
         /\ IsCall(3, "get_watcher_stats", p) /\ calls[3].ret = Done(Some(1))

\* C19: each notification the listener of a watched directory receives is
\* recorded on the directory's registry entry: the entry's event_count equals
\* the number of notifications its watcher's listener has received since the
\* entry was registered.
C19_PumpRecordsEvents ==
    \A e \in watchers :
        e.watcher \in PumpIds => e.event_count = pumps[e.watcher].received

\* C20: a listener thread whose watcher has been dropped out of the registry
\* (removed, cleared or replaced) eventually leaves its loop and exits.
C20_ListenersExit ==
    \A h \in Handles :
        (h \in PumpIds /\ h \in released /\ pumps[h].listener = "running")
            ~> (h \in PumpIds /\ pumps[h].listener = "exited")

\* a listener that received an event has exited after its watcher was dropped
C20_Witness ==
    \E h \in PumpIds :
        /\ h \in released
        /\ pumps[h].received > 0
        /\ pumps[h].listener = "exited"

\* C21: on a poisoned registry mutex every method of the registry returns the
\* lock-failure error; none answers as if the registry were empty.
C21_PoisonSurfaced ==
    \A t \in Threads :
        (lock = Poisoned /\ threads[t].pc = "unlock") => threads[t].ret = LockFailed

\* C22: the registry is empty after the window's close request is handled and
\* after the workspace root is replaced by the selection of another workspace.
C22_TornDown ==
    [][(CloseRequested \/ workspace_path' # workspace_path) => watchers' = {}]_vars

\* what a call of the history does to a map when it runs alone
Sequential(c, map) ==
    CASE c.op = "register_watcher" -> register_watcher(map, c.path, c.watcher)
      [] c.op = "remove_watcher" -> remove_watcher(map, c.path)
      [] c.op = "has_watcher" -> has_watcher(map, c.path)
      [] c.op = "watcher_count" -> watcher_count(map)
      [] c.op = "get_watched_directories" -> get_watched_directories(map)
      [] c.op = "clear_all_watchers" -> clear_all_watchers(map)
      [] c.op = "increment_watcher_event_count" ->
             increment_watcher_event_count(map, c.path)
      [] c.op = "get_watcher_stats" -> get_watcher_stats(map, c.path)

\* the map after the first n calls of the history, run one after the other
\* on an empty registry
RECURSIVE Replay(_)
Replay(n) == IF n = 0 THEN {} ELSE Sequential(calls[n], Replay(n - 1)).watchers

\* C23: the calls of concurrent threads are linearizable: run one after the
\* other in the order in which they passed the mutex, they return what each
\* call returned and leave the registry as it is; so registrations of distinct
\* keys leave one entry each, and the increments of one live entry return 1,
\* 2, .. without a gap or a repetition.
C23_Linearizable ==
    /\ watchers = Replay(Len(calls))
    /\ \A i \in CallIds : calls[i].ret = Sequential(calls[i], Replay(i - 1)).ret
    /\ ( /\ \A i \in CallIds : calls[i].op = "register_watcher"
         /\ \A i, j \in CallIds : i # j => calls[i].path # calls[j].path )
       => Cardinality(watchers) = Len(calls)
    /\ \A i \in CallIds :
         ( /\ i > 1
           /\ calls[1].op = "register_watcher"
           /\ \A j \in 2..i : IsCall(j, "increment_watcher_event_count", calls[1].path) )
         => calls[i].ret = Done(i - 1)

\* two threads increment the entry of one key at once: one has stored its
\* count and still holds the mutex, the other waits for it
C23_Witness ==
    /\ Len(calls) = 2
    /\ \E p \in WatchPaths :
         /\ IsCall(1, "register_watcher", p)
         /\ IsCall(2, "increment_watcher_event_count", p) /\ calls[2].ret = Done(1)
         /\ \E t \in Threads, u \in Threads :
                /\ threads[t].pc = "lock"
                /\ threads[t].op = "increment_watcher_event_count"
                /\ threads[t].path = p
                /\ threads[u].pc = "unlock"

LiveHandles(dir) ==
    {h \in PumpIds : pumps[h].watching /\ h \notin released /\ pumps[h].dir = dir}

\* C25: no directory on disk is watched by more than one live handle, also
\* when it is requested under different path strings that validate to the
\* same canonical directory.
C25_OneHandlePerDirectory ==
    \A h \in PumpIds : Cardinality(LiveHandles(pumps[h].dir)) <= 1

\* the completed create_new_file calls for the file at comps
CreatesOf(comps) == {i \in 1..Len(calls) : calls[i].path = comps}

WritesBefore(i) ==
    {j \in 1..(i - 1) : calls[j].op \in {"set_workspace_path", "clear_workspace_path"}}

\* the workspace path call i finds, by the history: that of the latest set
\* before it when no clear came after that set
RootBefore(i) ==
    IF WritesBefore(i) = {} THEN None
    ELSE LET j == CHOOSE k \in WritesBefore(i) : \A m \in WritesBefore(i) : m <= k
         IN  IF calls[j].op = "set_workspace_path" THEN Some(calls[j].path) ELSE None

\* C27: the workspace root starts unset; get_workspace_path returns the value
\* of the most recent set_workspace_path when no clear_workspace_path followed
\* it and fails otherwise, has_workspace tells which; under concurrent sets the
\* stored value is unset or one of the values written.
C27_WorkspaceRoot ==
    /\ workspace_path = RootBefore(Len(calls) + 1)
    /\ workspace_path \in
           {None} \cup {Some(calls[j].path) :
                           j \in {k \in CallIds : calls[k].op = "set_workspace_path"}}
    /\ \A i \in CallIds :
         /\ calls[i].op = "get_workspace_path" =>
                calls[i].ret = IF RootBefore(i) = None
                               THEN Failed("No workspace configured")
                               ELSE Done(RootBefore(i)[1])
         /\ calls[i].op = "has_workspace" =>
                calls[i].ret = Done(RootBefore(i) # None)

\* two different folders were set, a third call reads the second
C27_Witness ==
    /\ Len(calls) = 3
    /\ calls[1].op = "set_workspace_path"
    /\ calls[2].op = "set_workspace_path"
    /\ calls[1].path # calls[2].path
    /\ calls[3].op = "get_workspace_path"
    /\ calls[3].ret = Done(calls[2].path)

\* C28: when a watch_directory call returns Ok while no stop_watching,
\* stop_all_watchers or close handler runs, the registry holds an entry for
\* its path whose native watch has been started.  The call returns Ok from
\* the has_watcher check and after spawning the listener.
C28_OkMeansWatching ==
    [][\A t \in Threads :
          ( /\ threads[t].op = "watch_directory"
            /\ threads[t].pc \in {"has_watcher", "spawn"}
            /\ threads'[t].pc = "idle" )
          => \E e \in watchers' :
                 /\ e.path = threads[t].path
                 /\ pumps'[e.watcher].watching]_vars

\* C29: the cleanup of a watch_directory call whose native watch failed to
\* start removes no entry but the one the call registered.
C29_CleanupRemovesOwnEntry ==
    [][\A t \in Threads :
          (At(t, "cleanup") /\ threads'[t].pc = "idle")
          => (released' \ released) \subseteq {threads[t].watcher}]_vars

\* the entries of a map stored under other keys than path
OtherKeys(map, path) == {e \in map : e.path # path}

\* C30: register_watcher, remove_watcher and increment_watcher_event_count on
\* a key leave the entries of every other key and the workspace root as they
\* are; set_workspace_path and clear_workspace_path leave the watcher map as
\* it is.
C30_Frame ==
    [][Len(calls') = Len(calls) + 1 =>
          LET c == calls'[Len(calls')]
          IN  /\ c.op \in KeyedOps =>
                     /\ OtherKeys(watchers', c.path) = OtherKeys(watchers, c.path)
                     /\ workspace_path' = workspace_path
              /\ c.op \in {"set_workspace_path", "clear_workspace_path"} =>
                     watchers' = watchers]_vars

\* with a workspace path stored, a call on one key has run on a map holding
\* an entry of the other key, and a write of the workspace path on a map
\* that is not empty
C30_Witness ==
    /\ workspace_path # None
    /\ \E i \in CallIds :
         /\ calls[i].op \in KeyedOps
         /\ OtherKeys(calls[i].before, calls[i].path) # {}
    /\ \E i \in CallIds :
         /\ calls[i].op = "set_workspace_path"
         /\ calls[i].before # {}

\* C4: a path with a component exactly ".." fails with InvalidPathPattern for
\* every root; without such a component and without an encoded marker, a path
\* (dots inside a longer name included) is not rejected as a pattern
C4_DotDotRejected ==
    Validated =>
        /\ DotDotRequested => call.result.kind = "InvalidPathPattern"
        /\ ~TraversalRequested => call.result.kind # "InvalidPathPattern"

C4_Witness ==
    /\ Validated /\ DotDotRequested
    /\ call.result.kind = "InvalidPathPattern"
    /\ RootValid /\ PathExists(fs, ReqP) /\ Inside(Canonical(fs, ReqP))

\* C5 as stated: every path that resolves outside the root fails with
\* PathOutsideWorkspace
C5_OutsideAlwaysOutsideError ==
    (Validated /\ call.fault = "none" /\ RootValid /\ Step4Defined /\ ~Inside(Step4Path))
        => call.result.kind = "PathOutsideWorkspace"

\* C5 amended: a path that resolves outside a valid root fails with
\* PathOutsideWorkspace when it holds no traversal pattern, and with
\* InvalidPathPattern when it does
C5_OutsideRejected ==
    (Validated /\ call.fault = "none" /\ RootValid /\ Step4Defined /\ ~Inside(Step4Path))
        => call.result.kind =
               IF TraversalRequested THEN "InvalidPathPattern" ELSE "PathOutsideWorkspace"

C5_Witness ==
    /\ Validated /\ RootValid /\ Step4Defined /\ ~Inside(Step4Path)
    /\ call.result.kind = "PathOutsideWorkspace"
    /\ IsPrefix(<<Nw, Nl>>, ReqP.comps)

\* C6 as stated: every path that canonicalizes to the root or below it is
\* accepted and returned in canonical form
C6_InsideAlwaysAccepted ==
    (Validated /\ call.fault = "none" /\ RootExists /\ PathExists(fs, ReqP)
       /\ IsPrefix(RootCanon, Canonical(fs, ReqP)))
        => call.result = Ok(Canonical(fs, ReqP))

\* C6 amended: such a path is accepted and returned in canonical form when it
\* holds no traversal pattern and the root is a directory; it fails with
\* InvalidPathPattern when it holds one, else with InvalidWorkspaceRoot
C6_InsideAccepted ==
    (Validated /\ call.fault = "none" /\ RootExists /\ PathExists(fs, ReqP)
       /\ IsPrefix(RootCanon, Canonical(fs, ReqP)))
        => call.result =
               IF TraversalRequested
               THEN Err("InvalidPathPattern", "Path contains directory traversal patterns")
               ELSE IF ~RootValid
               THEN Err("InvalidWorkspaceRoot", "Workspace path is not a directory")
               ELSE Ok(Canonical(fs, ReqP))

C6_Witness ==
    /\ Validated /\ call.result.kind = "Ok"
    /\ PathExists(fs, ReqP)
    /\ ReqP.abs /\ ReqP.comps # call.result.path

C8_InvalidRoot ==
    (Validated /\ ~TraversalRequested
       /\ (~RootExists \/ ~RootValid \/ call.fault = "root"))
        => call.result.kind = "InvalidWorkspaceRoot"

C8_Witness ==
    /\ Validated /\ ~TraversalRequested
    /\ RootExists /\ ~RootValid
    /\ call.result.kind = "InvalidWorkspaceRoot"
    /\ Step4Defined

\* the extension of the accepted path matches, ignoring case, a member of the list
ExtensionMatches(path, allowed) ==
    /\ path # <<>> /\ HasExtension(Last(path))
    /\ \E a \in allowed : ToLower(a) = ToLower(Extension(Last(path)))

AcceptedByValidate ==
    validate_path_within_workspace(fs, requested_path, workspace_root, "none")

\* C9 as stated: on a path validate accepts, validate_file_path returns Ok
\* exactly when the extension matches a member of the allow-list
C9_OkIffExtensionMatches ==
    (call.op = "validate_file" /\ call.fault = "none" /\ AcceptedByValidate.kind = "Ok")
        => (call.result.kind = "Ok"
              <=> ExtensionMatches(AcceptedByValidate.path, call.allowed))

\* C9 amended: it returns the accepted path when the extension matches a member
\* of the allow-list, or when the path has no extension and the allow-list is
\* empty; everything else fails with InvalidPathPattern
C9_ExtensionChecked ==
    (call.op = "validate_file" /\ call.fault = "none" /\ AcceptedByValidate.kind = "Ok")
        => LET path == AcceptedByValidate.path
               noext == path = <<>> \/ ~HasExtension(Last(path))
           IN  IF ExtensionMatches(path, call.allowed) \/ (noext /\ call.allowed = {})
               THEN call.result = Ok(path)
               ELSE call.result.kind = "InvalidPathPattern"

C9_Witness ==
    /\ call.op = "validate_file" /\ call.result.kind = "Ok"
    /\ call.allowed # {}
    /\ Extension(Last(call.result.path)) \notin call.allowed

\* C10: validate_directory_path returns what validate_path_within_workspace
\* returns, except that with must_exist set an accepted path that is not a
\* directory fails with PathResolutionFailed
C10_DirectoryPath ==
    call.op = "validate_dir" =>
        LET v == validate_path_within_workspace(
                     fs, requested_path, workspace_root, call.fault)
        IN  IF v.kind = "Ok" /\ call.must_exist
                 /\ ~PathIsDir(fs, PathOfCanonical(v.path))
            THEN call.result.kind = "PathResolutionFailed"
            ELSE call.result = v

C10_Witness ==
    /\ call.op = "validate_dir" /\ ~call.must_exist
    /\ ~PathExists(fs, ReqP)
    /\ call.result.kind = "Ok"

====
